---- MODULE Spec2Model ----
(***************************************************************************)
(* A model of the retail market-research web application (src/app.py):     *)
(* the brand matcher, the address parser, the flat-file JSON store, the    *)
(* analyzer, the market importer and the batch store search.               *)
(*                                                                         *)
(* Python strings are TLA+ strings; TLC evaluates Len, \o and SubSeq on    *)
(* them, so the string functions of the code are computed character by     *)
(* character.                                                              *)
(***************************************************************************)
EXTENDS Integers, Sequences, FiniteSets, TLC

VARIABLES
    place_name,         \* is_official_brand_store: argument place_name
    retailer_name,      \* is_official_brand_store: argument retailer_name
    brand_called,       \* the brand matcher has returned
    brand_result        \* its return value

brand_vars == <<place_name, retailer_name, brand_called, brand_result>>

VARIABLES
    formatted_address,  \* _parse_address_components: its argument
    addr_called,        \* the address parser has returned
    addr_result         \* its return value <<street_address, city, state, zip_code>>

addr_vars == <<formatted_address, addr_called, addr_result>>

VARIABLES
    db_file,            \* data/retailer_database.json: [exists, content (JSON tokens), readable]
    now,                \* the clock, in ticks
    resp,               \* the response of the last request handled
    markets_file        \* data/markets_database.json: [exists, content (JSON tokens), readable]

db_vars == <<db_file, now, resp, markets_file>>

VARIABLES
    rt_records,         \* round trip: the list handed to _save_db
    rt_phase,           \* round trip: start, saved, loaded, resaved
    rt_loaded,          \* round trip: what _load_db returned
    rt_first            \* round trip: the file as the first save left it

rt_vars == <<rt_records, rt_phase, rt_loaded, rt_first>>

VARIABLES
    session_markets_rows,   \* session['markets_rows']: the market rows of this session
    results                 \* the rows /analyze rendered last

an_vars == <<session_markets_rows, results>>

VARIABLES
    search_pc,          \* /search: idle, loop (between two searches), done
    retailer_input,     \* the retailer_name field of the request, stripped
    retailer_names,     \* the retailer names of the request
    search_locations,   \* the locations of the request
    ri,                 \* the retailer the loop is at
    li,                 \* the location the loop is at
    api_calls_made,
    gmaps_calls,        \* the calls the Google client has made for this request
    last_search,        \* what the last pass of the loop searched and was answered
    all_stores,
    retailer_stores,
    retailer_results,
    seen_place_ids,
    skipped,            \* the stores the loop left out as seen: place id, retailer, location
    LAST_RESULTS_CACHE, \* cache key -> entry, in insertion order
    uuids,              \* the number of cache keys drawn so far
    last_results_key,   \* session['last_results_key'], None when absent
    last_search_terms   \* session['last_search_terms'], None when absent

search_vars == <<search_pc, retailer_input, retailer_names, search_locations, ri, li,
                 api_calls_made, gmaps_calls, last_search, all_stores, retailer_stores,
                 retailer_results, seen_place_ids, skipped, LAST_RESULTS_CACHE, uuids,
                 last_results_key, last_search_terms>>

vars == <<brand_vars, addr_vars, db_vars, rt_vars, an_vars, search_vars>>

(***************************************************************************)
(* Python str primitives                                                   *)
(***************************************************************************)
UpperLetters == "ABCDEFGHIJKLMNOPQRSTUVWXYZ"
LowerLetters == "abcdefghijklmnopqrstuvwxyz"
Digits == "0123456789"

CharAt(s, i) == SubSeq(s, i, i)

UpperSet == {CharAt(UpperLetters, i) : i \in 1..26}
LowerSet == {CharAt(LowerLetters, i) : i \in 1..26}
DigitSet == {CharAt(Digits, i) : i \in 1..10}

\* c in s, for a single character c
HasChar(s, c) == \E i \in 1..Len(s) : CharAt(s, i) = c

IndexOfChar(s, c) == CHOOSE i \in 1..Len(s) : CharAt(s, i) = c

\* str.lower and str.upper on one character
LowerMap == [c \in UpperSet |-> CharAt(LowerLetters, IndexOfChar(UpperLetters, c))]
UpperMap == [c \in LowerSet |-> CharAt(UpperLetters, IndexOfChar(LowerLetters, c))]
DigitValue == [c \in DigitSet |-> IndexOfChar(Digits, c) - 1]

IsUpper(c) == c \in UpperSet
IsDigit(c) == c \in DigitSet
\* str.isspace for the characters the model uses
IsSpace(c) == c \in {" ", "\t", "\n"}

LowerChar(c) == IF c \in UpperSet THEN LowerMap[c] ELSE c
UpperChar(c) == IF c \in LowerSet THEN UpperMap[c] ELSE c

RECURSIVE str_lower(_)
str_lower(s) == IF s = "" THEN "" ELSE LowerChar(CharAt(s, 1)) \o str_lower(SubSeq(s, 2, Len(s)))

RECURSIVE str_upper(_)
str_upper(s) == IF s = "" THEN "" ELSE UpperChar(CharAt(s, 1)) \o str_upper(SubSeq(s, 2, Len(s)))

RECURSIVE str_lstrip(_)
str_lstrip(s) == IF s # "" /\ IsSpace(CharAt(s, 1)) THEN str_lstrip(SubSeq(s, 2, Len(s))) ELSE s

RECURSIVE str_rstrip(_)
str_rstrip(s) == IF s # "" /\ IsSpace(CharAt(s, Len(s))) THEN str_rstrip(SubSeq(s, 1, Len(s) - 1)) ELSE s

str_strip(s) == str_rstrip(str_lstrip(s))

\* x in s
str_contains(s, x) == \E i \in 0..(Len(s) - Len(x)) : SubSeq(s, i + 1, i + Len(x)) = x

\* s.split(): the maximal runs of non-whitespace characters, in order
RECURSIVE split_ws(_, _)
split_ws(s, cur) ==
    IF s = "" THEN (IF cur = "" THEN <<>> ELSE <<cur>>)
    ELSE IF IsSpace(CharAt(s, 1))
         THEN (IF cur = "" THEN <<>> ELSE <<cur>>) \o split_ws(SubSeq(s, 2, Len(s)), "")
         ELSE split_ws(SubSeq(s, 2, Len(s)), cur \o CharAt(s, 1))

str_split(s) == split_ws(s, "")

\* s.split(sep) for a one-character separator: always at least one part
RECURSIVE split_on(_, _, _)
split_on(s, sep, cur) ==
    IF s = "" THEN <<cur>>
    ELSE IF CharAt(s, 1) = sep
         THEN <<cur>> \o split_on(SubSeq(s, 2, Len(s)), sep, "")
         ELSE split_on(SubSeq(s, 2, Len(s)), sep, cur \o CharAt(s, 1))

str_split_sep(s, sep) == split_on(s, sep, "")

\* s.replace(old, new), old not empty
RECURSIVE str_replace(_, _, _)
str_replace(s, old, new) ==
    IF Len(s) < Len(old) THEN s
    ELSE IF SubSeq(s, 1, Len(old)) = old
         THEN new \o str_replace(SubSeq(s, Len(old) + 1, Len(s)), old, new)
         ELSE CharAt(s, 1) \o str_replace(SubSeq(s, 2, Len(s)), old, new)

\* s.title(): a letter after a letter in lower case, any other letter in
\* upper case
RECURSIVE title_from(_, _)
title_from(s, after_letter) ==
    IF s = "" THEN ""
    ELSE LET c == CharAt(s, 1)
             letter == c \in UpperSet \cup LowerSet
         IN  (IF ~letter THEN c ELSE IF after_letter THEN LowerChar(c) ELSE UpperChar(c))
                 \o title_from(SubSeq(s, 2, Len(s)), letter)

str_title(s) == title_from(s, FALSE)

AllDigits(s) == \A i \in 1..Len(s) : IsDigit(CharAt(s, i))
AllSpace(s) == \A i \in 1..Len(s) : IsSpace(CharAt(s, i))

\* str(n) and int(s) for n >= 0
RECURSIVE int_str(_)
int_str(n) ==
    IF n < 10 THEN CharAt(Digits, n + 1)
    ELSE int_str(n \div 10) \o CharAt(Digits, (n % 10) + 1)

RECURSIVE str_int(_)
str_int(s) ==
    IF s = "" THEN 0
    ELSE 10 * str_int(SubSeq(s, 1, Len(s) - 1)) + DigitValue[CharAt(s, Len(s))]

(***************************************************************************)
(* Python values as the json module sees them: str, int, float, bool,      *)
(* None, list, and dict (an insertion-ordered sequence of key/value pairs) *)
(***************************************************************************)
VStr(s) == [t |-> "str", s |-> s]
VInt(n) == [t |-> "int", n |-> n]
\* a float, held as the shortest text that parses back to it (repr)
VFloat(r) == [t |-> "float", repr |-> r]
VBool(b) == [t |-> "bool", b |-> b]
VNone == [t |-> "null"]
VList(items) == [t |-> "list", items |-> items]
VDict(items) == [t |-> "dict", items |-> items]
KV(k, v) == [k |-> k, v |-> v]

\* key in d
dict_has(d, k) == \E i \in 1..Len(d.items) : d.items[i].k = k

\* d.get(key, default)
dict_get(d, k, default) ==
    IF dict_has(d, k)
    THEN d.items[CHOOSE i \in 1..Len(d.items) : d.items[i].k = k].v
    ELSE default

\* d[key] = v: an existing key keeps its place, a new key goes last
dict_set(d, k, v) ==
    IF dict_has(d, k)
    THEN VDict([i \in 1..Len(d.items) |-> IF d.items[i].k = k THEN KV(k, v) ELSE d.items[i]])
    ELSE VDict(Append(d.items, KV(k, v)))

\* del d[key]
dict_del(d, k) == VDict(SelectSeq(d.items, LAMBDA e : e.k # k))

\* bool(v), for the values the handlers test
truthy(v) ==
    CASE v.t = "str" -> v.s # ""
      [] v.t = "int" -> v.n # 0
      [] v.t = "float" -> v.repr \notin {"0.0", "-0.0"}
      [] v.t = "bool" -> v.b
      [] v.t = "null" -> FALSE
      [] v.t = "list" -> v.items # <<>>
      [] v.t = "dict" -> v.items # <<>>

(***************************************************************************)
(* json.dump / json.load, at the level of JSON tokens: the six structural  *)
(* characters and the scalar literals. Whitespace (indent=2) separates     *)
(* tokens and is not represented.                                          *)
(***************************************************************************)
Tok(c) == [k |-> c]
TokStr(s) == [k |-> "str", s |-> s]
TokNum(text) == [k |-> "num", text |-> text]

RECURSIVE json_dumps(_)
RECURSIVE dumps_items(_)
RECURSIVE dumps_members(_)

\* the elements of a list, comma-separated
dumps_items(items) ==
    IF Len(items) = 1 THEN json_dumps(items[1])
    ELSE json_dumps(items[1]) \o <<Tok(",")>> \o dumps_items(Tail(items))

\* the members of a dict, "key": value, comma-separated
dumps_members(items) ==
    LET first == <<TokStr(items[1].k), Tok(":")>> \o json_dumps(items[1].v)
    IN  IF Len(items) = 1 THEN first
        ELSE first \o <<Tok(",")>> \o dumps_members(Tail(items))

json_dumps(v) ==
    CASE v.t = "str" -> <<TokStr(v.s)>>
      [] v.t = "int" -> <<TokNum(int_str(v.n))>>
      [] v.t = "float" -> <<TokNum(v.repr)>>
      [] v.t = "bool" -> <<Tok(IF v.b THEN "true" ELSE "false")>>
      [] v.t = "null" -> <<Tok("null")>>
      [] v.t = "list" ->
            IF v.items = <<>> THEN <<Tok("["), Tok("]")>>
            ELSE <<Tok("[")>> \o dumps_items(v.items) \o <<Tok("]")>>
      [] v.t = "dict" ->
            IF v.items = <<>> THEN <<Tok("{"), Tok("}")>>
            ELSE <<Tok("{")>> \o dumps_members(v.items) \o <<Tok("}")>>

ParseFail == [ok |-> FALSE, v |-> VNone, next |-> 0]
ParseOk(v, next) == [ok |-> TRUE, v |-> v, next |-> next]

IsTok(toks, i, c) == i <= Len(toks) /\ toks[i].k = c

RECURSIVE parse_value(_, _)
RECURSIVE parse_items(_, _, _)
RECURSIVE parse_members(_, _, _)

\* the elements after "[" or ",": value, then "," or "]"
parse_items(toks, i, acc) ==
    LET r == parse_value(toks, i) IN
    IF ~r.ok THEN ParseFail
    ELSE IF IsTok(toks, r.next, ",") THEN parse_items(toks, r.next + 1, Append(acc, r.v))
    ELSE IF IsTok(toks, r.next, "]") THEN ParseOk(VList(Append(acc, r.v)), r.next + 1)
    ELSE ParseFail

\* the members after "{" or ",": "key" : value, then "," or "}"; a repeated
\* key keeps its last value
parse_members(toks, i, acc) ==
    IF ~(IsTok(toks, i, "str") /\ IsTok(toks, i + 1, ":")) THEN ParseFail
    ELSE LET r == parse_value(toks, i + 2) IN
         IF ~r.ok THEN ParseFail
         ELSE IF IsTok(toks, r.next, ",")
              THEN parse_members(toks, r.next + 1, dict_set(acc, toks[i].s, r.v))
         ELSE IF IsTok(toks, r.next, "}")
              THEN ParseOk(dict_set(acc, toks[i].s, r.v), r.next + 1)
         ELSE ParseFail

parse_value(toks, i) ==
    IF i > Len(toks) THEN ParseFail
    ELSE LET tok == toks[i] IN
         CASE tok.k = "str" -> ParseOk(VStr(tok.s), i + 1)
           [] tok.k = "num" ->
                 IF AllDigits(tok.text) /\ tok.text # ""
                 THEN ParseOk(VInt(str_int(tok.text)), i + 1)
                 ELSE ParseOk(VFloat(tok.text), i + 1)
           [] tok.k = "true" -> ParseOk(VBool(TRUE), i + 1)
           [] tok.k = "false" -> ParseOk(VBool(FALSE), i + 1)
           [] tok.k = "null" -> ParseOk(VNone, i + 1)
           [] tok.k = "[" ->
                 IF IsTok(toks, i + 1, "]") THEN ParseOk(VList(<<>>), i + 2)
                 ELSE parse_items(toks, i + 1, <<>>)
           [] tok.k = "{" ->
                 IF IsTok(toks, i + 1, "}") THEN ParseOk(VDict(<<>>), i + 2)
                 ELSE parse_members(toks, i + 1, VDict(<<>>))
           [] OTHER -> ParseFail

\* json.load: one value and nothing after it, else an exception
json_loads(toks) ==
    LET r == parse_value(toks, 1) IN
    IF r.ok /\ r.next = Len(toks) + 1 THEN [ok |-> TRUE, v |-> r.v]
    ELSE [ok |-> FALSE, v |-> VNone]

(***************************************************************************)
(* Flat-File Store: _load_db, _save_db                                     *)
(***************************************************************************)
\* a file: whether it exists, its content, and whether opening it for
\* reading succeeds
NoFile == [exists |-> FALSE, content |-> <<>>, readable |-> TRUE]
FileOf(content) == [exists |-> TRUE, content |-> content, readable |-> TRUE]

\* A variant that returns whatever prefix of the file parses as a value
load_db_lenient(f) ==
    IF ~f.exists THEN VList(<<>>)
    ELSE LET loaded == parse_value(f.content, 1)
         IN  IF loaded.ok THEN loaded.v ELSE VList(<<>>)

_load_db(f) ==
    IF ~f.exists \/ ~f.readable THEN VList(<<>>)
    ELSE LET loaded == json_loads(f.content)
         IN  IF loaded.ok THEN loaded.v ELSE VList(<<>>)

\* A variant that opens the file for appending instead of truncating it
save_db_append(f, records) == FileOf(f.content \o json_dumps(records))

\* open(DB_FILE, 'w') truncates; json.dump writes the whole list
_save_db(f, records) == [FileOf(json_dumps(records)) EXCEPT !.readable = f.readable]

\* datetime.now().isoformat(), as a text of the clock
isoformat(t) == "t" \o int_str(t)

(***************************************************************************)
(* Retailer records                                                        *)
(***************************************************************************)
is_closed(store) ==
    str_lower(dict_get(store, "business_status", VStr("")).s)
        \in {"permanently_closed", "closed_permanently"}

\* the stores that are not permanently closed, in order
active_stores_of(stores) == SelectSeq(stores, LAMBDA st : ~is_closed(st))

\* A variant that adds every non-empty city as it is written, untrimmed
unique_cities_untrimmed(stores) ==
    {dict_get(stores[i], "city", VStr("")).s : i \in 1..Len(stores)} \ {""}

\* the distinct non-empty trimmed cities of the stores
unique_cities_of(stores) ==
    {str_strip(dict_get(stores[i], "city", VStr("")).s) : i \in 1..Len(stores)} \ {""}

\* not r.get('removed', False)
is_active(r) == ~truthy(dict_get(r, "removed", VBool(FALSE)))

\* A variant that counts every record, removed or not
count_all(records) == Len(records)

\* len([r for r in retailer_data if not r.get('removed', False)])
active_count(records) == Cardinality({i \in 1..Len(records) : is_active(records[i])})

RemoveAt(seq, i) == SubSeq(seq, 1, i - 1) \o SubSeq(seq, i + 1, Len(seq))

Resp(op, success, idx, remaining) ==
    [op |-> op, success |-> success, idx |-> idx, remaining |-> remaining]

(***************************************************************************)
(* Brand Matcher: is_official_brand_store                                  *)
(***************************************************************************)
excluded_names ==
    << "macy", "nordstrom", "dillard", "bloomingdale", "saks", "neiman marcus",
       "kohls", "jcpenney", "tj maxx", "marshalls", "ross dress", "burlington",
       "target", "walmart", "costco", "sam's club", "amazon hub", "belk" >>

variant_prefixes == << "polo", "factory", "outlet", "ralph", "lauren" >>

has_excluded_name(name_l) ==
    \E i \in 1..Len(excluded_names) : str_contains(name_l, excluded_names[i])

\* [t for t in brand_l.split() if len(t) > 2]
brand_tokens(brand_l) == SelectSeq(str_split(brand_l), LAMBDA t : Len(t) > 2)

any_token_in(name_l, toks) == \E i \in 1..Len(toks) : str_contains(name_l, toks[i])
all_tokens_in(name_l, toks) == \A i \in 1..Len(toks) : str_contains(name_l, toks[i])

\* A variant that accepts a name holding a variant prefix followed by a
\* space, whatever follows
prefix_variant_any(name_l, brand_l) ==
    \E v \in 1..Len(variant_prefixes) : str_contains(name_l, variant_prefixes[v] \o " ")

prefix_variant(name_l, brand_l) ==
    \E v \in 1..Len(variant_prefixes) :
        \/ str_contains(name_l, variant_prefixes[v] \o " " \o brand_l)
        \/ \E k \in 1..Len(brand_tokens(brand_l)) :
               str_contains(name_l, variant_prefixes[v] \o " " \o brand_tokens(brand_l)[k])

\* A variant that tests the denylist only after the exact brand mention
brand_store_denylist_late(p, r) ==
    LET name_l == str_lower(p)
        brand_l == str_strip(str_lower(r))
        tokens == str_split(brand_l)
    IN  IF p = "" THEN FALSE
        ELSE IF str_contains(name_l, brand_l) THEN TRUE
        ELSE IF has_excluded_name(name_l) THEN FALSE
        ELSE IF brand_tokens(brand_l) # <<>> /\ any_token_in(name_l, brand_tokens(brand_l)) THEN TRUE
        ELSE IF Len(tokens) >= 2 /\ all_tokens_in(name_l, tokens) THEN TRUE
        ELSE prefix_variant(name_l, brand_l)

\* A variant without the exact-brand-mention rule
brand_store_no_exact_rule(p, r) ==
    LET name_l == str_lower(p)
        brand_l == str_strip(str_lower(r))
        tokens == str_split(brand_l)
    IN  IF p = "" THEN FALSE
        ELSE IF has_excluded_name(name_l) THEN FALSE
        ELSE IF brand_tokens(brand_l) # <<>> /\ any_token_in(name_l, brand_tokens(brand_l)) THEN TRUE
        ELSE IF Len(tokens) >= 2 /\ all_tokens_in(name_l, tokens) THEN TRUE
        ELSE prefix_variant(name_l, brand_l)

is_official_brand_store(p, r) ==
    LET name_l == str_lower(p)
        brand_l == str_strip(str_lower(r))
        tokens == str_split(brand_l)
    IN  IF p = "" THEN FALSE
        ELSE IF has_excluded_name(name_l) THEN FALSE
        ELSE IF str_contains(name_l, brand_l) THEN TRUE
        ELSE IF brand_tokens(brand_l) # <<>> /\ any_token_in(name_l, brand_tokens(brand_l)) THEN TRUE
        ELSE IF Len(tokens) >= 2 /\ all_tokens_in(name_l, tokens) THEN TRUE
        ELSE prefix_variant(name_l, brand_l)

(***************************************************************************)
(* Address Parser: _parse_address_components                               *)
(***************************************************************************)
\* \d{5}(?:-\d{4})? matched against the whole of z
is_zip(z) ==
    \/ Len(z) = 5 /\ AllDigits(z)
    \/ Len(z) = 10 /\ AllDigits(SubSeq(z, 1, 5)) /\ CharAt(z, 6) = "-" /\ AllDigits(SubSeq(z, 7, 10))

\* [A-Z]{2} at the start of s
starts_with_state(s) == Len(s) >= 2 /\ IsUpper(CharAt(s, 1)) /\ IsUpper(CharAt(s, 2))

\* The positions k at which the whitespace run of ^([A-Z]{2})\s+(zip)$ can end:
\* s = state (2) . whitespace (3..k) . zip (k+1..)
state_zip_splits(s) ==
    {k \in 3..Len(s) : /\ starts_with_state(s)
                       /\ AllSpace(SubSeq(s, 3, k))
                       /\ is_zip(SubSeq(s, k + 1, Len(s)))}

\* re.match(r'^([A-Z]{2})\s+(\d{5}(?:-\d{4})?)$', s): <<matched, group 1, group 2>>
state_zip_match(s) ==
    IF state_zip_splits(s) = {} THEN [ok |-> FALSE, state |-> "", zip |-> ""]
    ELSE LET k == CHOOSE k \in state_zip_splits(s) : TRUE
         IN  [ok |-> TRUE, state |-> SubSeq(s, 1, 2), zip |-> SubSeq(s, k + 1, Len(s))]

\* The lengths of group 1 with which ^(.+?)\s+([A-Z]{2})\s+(zip)$ matches all of s
city_state_zip_splits(s) ==
    {g \in 1..Len(s) :
        /\ ~HasChar(SubSeq(s, 1, g), "\n")
        /\ \E j \in (g + 1)..Len(s) :
               /\ AllSpace(SubSeq(s, g + 1, j))
               /\ state_zip_match(SubSeq(s, j + 1, Len(s))).ok}

\* re.match(r'^(.+?)\s+([A-Z]{2})\s+(\d{5}(?:-\d{4})?)$', s); the lazy group 1
\* is the shortest that lets the rest match
city_state_zip_match(s) ==
    IF city_state_zip_splits(s) = {} THEN [ok |-> FALSE, city |-> "", state |-> "", zip |-> ""]
    ELSE LET g == CHOOSE g \in city_state_zip_splits(s) : \A h \in city_state_zip_splits(s) : g <= h
             j == CHOOSE j \in (g + 1)..Len(s) :
                      /\ AllSpace(SubSeq(s, g + 1, j))
                      /\ state_zip_match(SubSeq(s, j + 1, Len(s))).ok
             m == state_zip_match(SubSeq(s, j + 1, Len(s)))
         IN  [ok |-> TRUE, city |-> SubSeq(s, 1, g), state |-> m.state, zip |-> m.zip]

\* parts = [part.strip() for part in formatted_address.split(',')]
address_parts(a) ==
    LET raw == str_split_sep(a, ",") IN [i \in 1..Len(raw) |-> str_strip(raw[i])]

\* A variant that keeps only the five-digit ZIP and drops a -4 extension
parse_address_zip5(a) ==
    LET parts == address_parts(a) IN
    IF a = "" THEN <<"", "", "", "">>
    ELSE IF Len(parts) >= 3 THEN
        LET m == state_zip_match(str_strip(parts[3])) IN
        IF m.ok THEN <<str_strip(parts[1]), str_strip(parts[2]), m.state, SubSeq(m.zip, 1, 5)>>
        ELSE IF starts_with_state(str_strip(parts[3]))
             THEN <<str_strip(parts[1]), str_strip(parts[2]), SubSeq(str_strip(parts[3]), 1, 2), "">>
             ELSE <<str_strip(parts[1]), str_strip(parts[2]), "", "">>
    ELSE IF Len(parts) = 2 THEN
        LET m == city_state_zip_match(str_strip(parts[2])) IN
        IF m.ok THEN <<str_strip(parts[1]), str_strip(m.city), m.state, SubSeq(m.zip, 1, 5)>>
        ELSE <<str_strip(parts[1]), "", "", "">>
    ELSE <<"", "", "", "">>

\* A variant without the fallback that takes the state alone
parse_address_no_state_fallback(a) ==
    LET parts == address_parts(a) IN
    IF a = "" THEN <<"", "", "", "">>
    ELSE IF Len(parts) >= 3 THEN
        LET m == state_zip_match(str_strip(parts[3])) IN
        IF m.ok THEN <<str_strip(parts[1]), str_strip(parts[2]), m.state, m.zip>>
        ELSE <<str_strip(parts[1]), str_strip(parts[2]), "", "">>
    ELSE IF Len(parts) = 2 THEN
        LET m == city_state_zip_match(str_strip(parts[2])) IN
        IF m.ok THEN <<str_strip(parts[1]), str_strip(m.city), m.state, m.zip>>
        ELSE <<str_strip(parts[1]), "", "", "">>
    ELSE <<"", "", "", "">>

_parse_address_components(a) ==
    LET parts == address_parts(a) IN
    IF a = "" THEN <<"", "", "", "">>
    ELSE IF Len(parts) >= 3 THEN
        LET m == state_zip_match(str_strip(parts[3])) IN
        IF m.ok THEN <<str_strip(parts[1]), str_strip(parts[2]), m.state, m.zip>>
        ELSE IF starts_with_state(str_strip(parts[3]))
             THEN <<str_strip(parts[1]), str_strip(parts[2]), SubSeq(str_strip(parts[3]), 1, 2), "">>
             ELSE <<str_strip(parts[1]), str_strip(parts[2]), "", "">>
    ELSE IF Len(parts) = 2 THEN
        LET m == city_state_zip_match(str_strip(parts[2])) IN
        IF m.ok THEN <<str_strip(parts[1]), str_strip(m.city), m.state, m.zip>>
        ELSE <<str_strip(parts[1]), "", "", "">>
    ELSE <<"", "", "", "">>

(***************************************************************************)
(* Inputs of the brand matcher: names built from a few fragments           *)
(***************************************************************************)
MaxPlaceFrags == 2
MaxBrandFrags == 2

PlaceFrags == {"Macy's ", "Ralph ", "Lauren", "POLO ", "Gap", " Outlet", "Belk"}
BrandFrags == {"Ralph ", "lauren", " RL", "Gap", "A"}

RECURSIVE Concats(_, _)
Concats(frags, n) ==
    IF n = 0 THEN {""}
    ELSE LET shorter == Concats(frags, n - 1)
         IN  shorter \cup {s \o f : s \in shorter, f \in frags}

PlaceNames == Concats(PlaceFrags, MaxPlaceFrags)
RetailerNames == Concats(BrandFrags, MaxBrandFrags)

AddrIdle ==
    /\ formatted_address = ""
    /\ addr_called = FALSE
    /\ addr_result = <<"", "", "", "">>

NoResp == [op |-> "none", success |-> FALSE, idx |-> VNone, remaining |-> 0]

DbIdle ==
    /\ db_file = NoFile
    /\ markets_file = NoFile
    /\ now = 0
    /\ resp = NoResp

NoSearch == [made |-> FALSE, ok |-> FALSE, places |-> <<>>, details |-> FALSE]

SearchIdle ==
    /\ search_pc = "idle"
    /\ retailer_input = ""
    /\ retailer_names = <<>>
    /\ search_locations = <<>>
    /\ ri = 1
    /\ li = 1
    /\ api_calls_made = 0
    /\ gmaps_calls = 0
    /\ last_search = NoSearch
    /\ all_stores = <<>>
    /\ retailer_stores = <<>>
    /\ retailer_results = VDict(<<>>)
    /\ seen_place_ids = {}
    /\ skipped = {}
    /\ LAST_RESULTS_CACHE = VDict(<<>>)
    /\ uuids = 0
    /\ last_results_key = VNone
    /\ last_search_terms = VNone

AnIdle ==
    /\ session_markets_rows = <<>>
    /\ results = <<>>

RtIdle ==
    /\ rt_records = VList(<<>>)
    /\ rt_phase = "start"
    /\ rt_loaded = VList(<<>>)
    /\ rt_first = NoFile

BrandInit ==
    /\ AddrIdle
    /\ DbIdle
    /\ RtIdle
    /\ SearchIdle
    /\ AnIdle
    /\ place_name \in PlaceNames
    /\ retailer_name \in RetailerNames
    /\ brand_called = FALSE
    /\ brand_result = FALSE

BrandMatch ==
    /\ ~brand_called
    /\ brand_called' = TRUE
    /\ brand_result' = is_official_brand_store(place_name, retailer_name)
    /\ UNCHANGED <<place_name, retailer_name, addr_vars, db_vars, rt_vars, an_vars, search_vars>>

SpecBrand == BrandInit /\ [][BrandMatch]_vars

\* The place name contains, case-insensitively, a denylisted chain name
NameOnDenylist(p) ==
    \E i \in 1..Len(excluded_names) : str_contains(str_lower(p), excluded_names[i])

\* The lowercased, trimmed retailer name is a substring of the lowercased place name
BrandMentioned(p, r) == str_contains(str_lower(p), str_strip(str_lower(r)))

\* C1: whatever the retailer name, a place name that contains a denylist
\* substring (case-insensitively) is rejected, also when an accept rule
\* would fire on it.
C1_DenylistAlwaysRejects ==
    (brand_called /\ NameOnDenylist(place_name)) => brand_result = FALSE

\* A denylisted place that mentions the whole brand has been rejected
C1_Witness ==
    /\ brand_called
    /\ NameOnDenylist(place_name)
    /\ str_strip(retailer_name) # ""
    /\ BrandMentioned(place_name, retailer_name)
    /\ brand_result = FALSE

\* C2: a non-empty place name with no denylist substring is accepted
\* whenever the lowercased, trimmed retailer name is a substring of the
\* lowercased place name.
C2_ExactMentionAccepted ==
    (/\ brand_called
     /\ place_name # ""
     /\ ~NameOnDenylist(place_name)
     /\ BrandMentioned(place_name, retailer_name)) => brand_result = TRUE

\* A brand too short to count as a token is accepted by the exact mention alone
C2_Witness ==
    /\ brand_called
    /\ place_name # ""
    /\ ~NameOnDenylist(place_name)
    /\ BrandMentioned(place_name, retailer_name)
    /\ str_strip(retailer_name) # ""
    /\ brand_tokens(str_strip(str_lower(retailer_name))) = <<>>
    /\ brand_result = TRUE

(***************************************************************************)
(* Inputs of the address parser: comma-joined parts                        *)
(***************************************************************************)
MaxAddrParts == 4

AddrParts ==
    {"123 Main St", " Springfield ", "IL 62701", "NY  10001-1234", "il 62701",
     "IL 6270", "ILL 62701", "", "Troy MI 48084", "TroyMI 48084"}

RECURSIVE JoinedParts(_)
JoinedParts(n) ==
    IF n = 1 THEN AddrParts
    ELSE LET shorter == JoinedParts(n - 1)
         IN  shorter \cup {s \o "," \o p : s \in shorter, p \in AddrParts}

Addresses == JoinedParts(MaxAddrParts)

BrandIdle ==
    /\ place_name = ""
    /\ retailer_name = ""
    /\ brand_called = FALSE
    /\ brand_result = FALSE

AddrInit ==
    /\ BrandIdle
    /\ DbIdle
    /\ RtIdle
    /\ SearchIdle
    /\ AnIdle
    /\ formatted_address \in Addresses
    /\ addr_called = FALSE
    /\ addr_result = <<"", "", "", "">>

AddrParse ==
    /\ ~addr_called
    /\ addr_called' = TRUE
    /\ addr_result' = _parse_address_components(formatted_address)
    /\ UNCHANGED <<formatted_address, brand_vars, db_vars, rt_vars, an_vars, search_vars>>

SpecAddr == AddrInit /\ [][AddrParse]_vars

\* part i of the address, trimmed (i counted from 1)
TrimmedPart(a, i) == str_strip(str_split_sep(a, ",")[i])

\* s is two uppercase letters, whitespace ending at position k, then a ZIP
StateSpaceZipAt(s, k) ==
    /\ k >= 3 /\ k < Len(s)
    /\ IsUpper(CharAt(s, 1)) /\ IsUpper(CharAt(s, 2))
    /\ \A i \in 3..k : IsSpace(CharAt(s, i))
    /\ LET z == SubSeq(s, k + 1, Len(s)) IN
          \/ Len(z) = 5 /\ \A i \in 1..5 : IsDigit(CharAt(z, i))
          \/ /\ Len(z) = 10 /\ CharAt(z, 6) = "-"
             /\ \A i \in (1..5) \cup (7..10) : IsDigit(CharAt(z, i))

\* C3: an address of at least three comma-separated parts whose third part
\* (trimmed) is a two-letter uppercase state, whitespace and a 5-digit ZIP
\* with an optional -4 yields part 0 as street, part 1 as city, exactly
\* that state and exactly that ZIP.
C3_ThreePartStateZip ==
    (addr_called /\ Len(str_split_sep(formatted_address, ",")) >= 3) =>
        LET p3 == TrimmedPart(formatted_address, 3) IN
        \A k \in 1..Len(p3) :
            StateSpaceZipAt(p3, k) =>
                addr_result = << TrimmedPart(formatted_address, 1),
                                 TrimmedPart(formatted_address, 2),
                                 SubSeq(p3, 1, 2),
                                 SubSeq(p3, k + 1, Len(p3)) >>

\* s is a state, whitespace and a ZIP
C21_StateZip(s) == \E k \in 1..Len(s) : StateSpaceZipAt(s, k)

\* s ends in whitespace, a state, whitespace and a ZIP, after at least one
\* character
C21_EndsInStateZip(s) ==
    \E j \in 2..Len(s) : IsSpace(CharAt(s, j)) /\ C21_StateZip(SubSeq(s, j + 1, Len(s)))

C21_PartCount(a) == Len(str_split_sep(a, ","))

C21_TwoUpper(s) == Len(s) >= 2 /\ IsUpper(CharAt(s, 1)) /\ IsUpper(CharAt(s, 2))

\* C21: the parser returns four strings for every input and raises for
\* none.  The empty input and an input of one comma-separated part give four
\* empty strings.  With three or more parts whose third part is not a state
\* and ZIP, the ZIP is empty and the state is the two leading uppercase
\* letters of that part when it starts with two, else empty.  With exactly
\* two parts whose second part does not end in state and ZIP, city, state
\* and ZIP are empty.
C21_DegradesToEmpty ==
    addr_called =>
        /\ Len(addr_result) = 4
        /\ C21_PartCount(formatted_address) = 1 => addr_result = <<"", "", "", "">>
        /\ (C21_PartCount(formatted_address) >= 3
              /\ ~C21_StateZip(TrimmedPart(formatted_address, 3)))
             => /\ addr_result[4] = ""
                /\ addr_result[3] =
                       IF C21_TwoUpper(TrimmedPart(formatted_address, 3))
                       THEN SubSeq(TrimmedPart(formatted_address, 3), 1, 2) ELSE ""
        /\ (C21_PartCount(formatted_address) = 2
              /\ ~C21_EndsInStateZip(TrimmedPart(formatted_address, 2)))
             => /\ addr_result[2] = "" /\ addr_result[3] = "" /\ addr_result[4] = ""

\* a three-part address whose third part starts with two uppercase letters
\* but is no state and ZIP has been parsed: the state alone was taken
C21_Witness ==
    /\ addr_called
    /\ C21_PartCount(formatted_address) = 3
    /\ ~C21_StateZip(TrimmedPart(formatted_address, 3))
    /\ C21_TwoUpper(TrimmedPart(formatted_address, 3))
    /\ addr_result[3] # "" /\ addr_result[4] = ""

\* a two-part address whose second part is a state and ZIP without a city
\* has been parsed into a street alone
C21_WitnessTwoParts ==
    /\ addr_called
    /\ C21_PartCount(formatted_address) = 2
    /\ ~C21_EndsInStateZip(TrimmedPart(formatted_address, 2))
    /\ addr_result[1] # "" /\ addr_result[2] = ""

\* A four-part address with a ZIP+4 has been parsed into all four fields
C3_Witness ==
    /\ addr_called
    /\ Len(str_split_sep(formatted_address, ",")) >= 4
    /\ \E k \in 1..Len(TrimmedPart(formatted_address, 3)) :
           StateSpaceZipAt(TrimmedPart(formatted_address, 3), k)
    /\ Len(addr_result[4]) = 10
    /\ addr_result[1] # "" /\ addr_result[2] # "" /\ addr_result[3] # ""

(***************************************************************************)
(* The retailer database handlers                                          *)
(***************************************************************************)
MaxRecords == 2

Store(name, faddr, city, status) ==
    VDict(<< KV("name", VStr(name)), KV("formatted_address", VStr(faddr)),
             KV("city", VStr(city)), KV("business_status", VStr(status)) >>)

StoreTroy == Store("Gap", "1 Main St, Troy, MI 48084, USA", "Troy", "OPERATIONAL")
StoreClosed == Store("Gap", "9 Elm St, Troy, MI 48084, USA", " Troy", "CLOSED_PERMANENTLY")
StoreNoCity == Store("Polo", "7 Oak St", "", "")

\* the request bodies of /save-to-database: retailer_name and stores
SaveNames == {VStr(""), VStr("Gap")}
SaveStores == {<<>>, <<StoreTroy, StoreClosed>>}

\* retailer_index of a request body: absent (None) or an integer
Indexes == {VNone} \cup {VInt(i) : i \in -1..MaxRecords}

\* A record written before total_cities existed, still holding a closed store
LegacyRecord ==
    VDict(<< KV("retailer_name", VStr("Old")),
             KV("stores", VList(<<StoreClosed, StoreTroy>>)),
             KV("total_stores", VInt(2)) >>)

\* File contents json.load rejects: an empty file, a truncated dump, and a
\* complete value followed by more text
CorruptContents ==
    { <<>>,
      SubSeq(json_dumps(VList(<<LegacyRecord>>)), 1, 9),
      json_dumps(VList(<<LegacyRecord>>)) \o <<Tok("]")>> }

DbFiles ==
    {NoFile, FileOf(json_dumps(VList(<<>>))), FileOf(json_dumps(VList(<<LegacyRecord>>)))}
        \cup {FileOf(c) : c \in CorruptContents}

DbInit ==
    /\ BrandIdle
    /\ AddrIdle
    /\ RtIdle
    /\ SearchIdle
    /\ AnIdle
    /\ db_file \in DbFiles
    /\ markets_file = NoFile
    /\ now = 0
    /\ resp = NoResp

db_rest == <<brand_vars, addr_vars, search_vars, rt_vars, an_vars, markets_file>>

save_to_database(retailer, stores) ==
    /\ IF ~truthy(retailer) \/ stores = <<>>
       THEN /\ resp' = Resp("save", FALSE, VNone, 0)
            /\ UNCHANGED db_file
       ELSE LET active_stores == active_stores_of(stores)
                unique_cities == unique_cities_of(active_stores)
                retailer_data == _load_db(db_file).items
                retailer_entry ==
                    VDict(<< KV("retailer_name", retailer),
                             KV("stores", VList(active_stores)),
                             KV("total_stores", VInt(Len(active_stores))),
                             KV("total_cities", VInt(Cardinality(unique_cities))),
                             KV("date_added", VStr(isoformat(now))) >>)
            IN  /\ Len(retailer_data) < MaxRecords
                /\ db_file' = _save_db(db_file, VList(Append(retailer_data, retailer_entry)))
                /\ resp' = Resp("save", TRUE, VNone, Len(retailer_data) + 1)
    /\ UNCHANGED <<now, db_rest>>

clear_database ==
    /\ db_file' = _save_db(db_file, VList(<<>>))
    /\ resp' = Resp("clear", TRUE, VNone, 0)
    /\ UNCHANGED <<now, db_rest>>

\* the index test shared by remove, restore and delete
index_ok(retailer_index, retailer_data) ==
    /\ retailer_index # VNone
    /\ ~(retailer_index.n < 0 \/ retailer_index.n >= Len(retailer_data))

remove_retailer(retailer_index) ==
    LET retailer_data == _load_db(db_file).items IN
    /\ IF ~index_ok(retailer_index, retailer_data)
       THEN /\ resp' = Resp("remove", FALSE, retailer_index, 0)
            /\ UNCHANGED db_file
       ELSE LET i == retailer_index.n + 1
                marked == dict_set(dict_set(retailer_data[i], "removed", VBool(TRUE)),
                                   "removed_date", VStr(isoformat(now)))
                updated == [retailer_data EXCEPT ![i] = marked]
            IN  /\ db_file' = _save_db(db_file, VList(updated))
                /\ resp' = Resp("remove", TRUE, retailer_index, active_count(updated))
    /\ UNCHANGED <<now, db_rest>>

restore_retailer(retailer_index) ==
    LET retailer_data == _load_db(db_file).items IN
    /\ IF ~index_ok(retailer_index, retailer_data)
       THEN /\ resp' = Resp("restore", FALSE, retailer_index, 0)
            /\ UNCHANGED db_file
       ELSE LET i == retailer_index.n + 1
                restored == dict_del(dict_set(retailer_data[i], "removed", VBool(FALSE)),
                                     "removed_date")
                updated == [retailer_data EXCEPT ![i] = restored]
            IN  /\ db_file' = _save_db(db_file, VList(updated))
                /\ resp' = Resp("restore", TRUE, retailer_index, active_count(updated))
    /\ UNCHANGED <<now, db_rest>>

\* A variant of the permanent delete that pops the last record
delete_retailer_last(retailer_index) ==
    LET retailer_data == _load_db(db_file).items IN
    /\ IF ~index_ok(retailer_index, retailer_data)
       THEN /\ resp' = Resp("delete", FALSE, retailer_index, 0)
            /\ UNCHANGED db_file
       ELSE LET updated == RemoveAt(retailer_data, Len(retailer_data))
            IN  /\ db_file' = _save_db(db_file, VList(updated))
                /\ resp' = Resp("delete", TRUE, retailer_index, Len(updated))
    /\ UNCHANGED <<now, db_rest>>

delete_retailer(retailer_index) ==
    LET retailer_data == _load_db(db_file).items IN
    /\ IF ~index_ok(retailer_index, retailer_data)
       THEN /\ resp' = Resp("delete", FALSE, retailer_index, 0)
            /\ UNCHANGED db_file
       ELSE LET updated == RemoveAt(retailer_data, retailer_index.n + 1)
            IN  /\ db_file' = _save_db(db_file, VList(updated))
                /\ resp' = Resp("delete", TRUE, retailer_index, Len(updated))
    /\ UNCHANGED <<now, db_rest>>

\* one record as _migrate_retailer_data leaves it
migrate_record(retailer) ==
    IF dict_has(retailer, "total_cities") THEN retailer
    ELSE LET active_stores == active_stores_of(dict_get(retailer, "stores", VList(<<>>)).items)
             unique_cities == unique_cities_of(active_stores)
         IN  dict_set(dict_set(dict_set(retailer,
                 "stores", VList(active_stores)),
                 "total_stores", VInt(Len(active_stores))),
                 "total_cities", VInt(Cardinality(unique_cities)))

\* _migrate_retailer_data: the file afterwards
_migrate_retailer_data(f) ==
    LET retailer_data == _load_db(f).items
        updated == \E i \in 1..Len(retailer_data) : ~dict_has(retailer_data[i], "total_cities")
    IN  IF updated
        THEN _save_db(f, VList([i \in 1..Len(retailer_data) |-> migrate_record(retailer_data[i])]))
        ELSE f

\* GET /retailer-database: migrate, then count the active retailers
retailer_database ==
    /\ db_file' = _migrate_retailer_data(db_file)
    /\ resp' = Resp("view", TRUE, VNone, active_count(_load_db(_migrate_retailer_data(db_file)).items))
    /\ UNCHANGED <<now, db_rest>>

DbNext ==
    \/ \E retailer \in SaveNames, stores \in SaveStores : save_to_database(retailer, stores)
    \/ clear_database
    \/ \E idx \in Indexes : remove_retailer(idx)
    \/ \E idx \in Indexes : restore_retailer(idx)
    \/ \E idx \in Indexes : delete_retailer(idx)
    \/ retailer_database

SpecDb == DbInit /\ [][DbNext]_vars

\* the record the request addresses, before and after the step
C7_Valid(idx, records) == idx # VNone /\ idx.n >= 0 /\ idx.n < Len(records)

C7_Flag(r) == dict_get(r, "removed", VNone)

C7_ActiveIndexes(records) ==
    {j \in 1..Len(records) : C7_Flag(records[j]) # VBool(TRUE)}

C7_OthersKept(before, after, i) ==
    /\ Len(after) = Len(before)
    /\ dict_get(after[i], "stores", VNone) = dict_get(before[i], "stores", VNone)
    /\ \A j \in 1..Len(before) : j # i => after[j] = before[j]

C7_Effect(before, after, i, flag, remaining) ==
    /\ C7_Flag(after[i]) = VBool(flag)
    /\ (i \in C7_ActiveIndexes(after)) = ~flag
    /\ remaining = Cardinality(C7_ActiveIndexes(after))
    /\ C7_OthersKept(before, after, i)

C7_Checked(before, op, flag) ==
    (resp'.op = op /\ C7_Valid(resp'.idx, before)) =>
        /\ resp'.success
        /\ C7_Effect(before, _load_db(db_file').items, resp'.idx.n + 1, flag, resp'.remaining)

C7_Step(op, flag) == resp'.op = op => C7_Checked(_load_db(db_file).items, op, flag)

\* C7: for a valid index remove_retailer sets the record's removed flag to
\* true and the reported active count leaves it out; restore_retailer sets
\* the flag to false and the count includes it again; either step leaves
\* the record's stores and every other record as they were.
C7_RemoveRestore == [][C7_Step("remove", TRUE) /\ C7_Step("restore", FALSE)]_vars

\* A record was restored while the other record stays removed
C7_Witness ==
    LET records == _load_db(db_file).items
        i == resp.idx.n + 1
    IN  /\ resp.op = "restore" /\ resp.success
        /\ Len(records) = 2
        /\ C7_Flag(records[i]) = VBool(FALSE)
        /\ dict_get(records[i], "stores", VNone).items # <<>>
        /\ C7_Flag(records[3 - i]) = VBool(TRUE)
        /\ dict_has(records[3 - i], "removed_date")
        /\ resp.remaining = 1

(***************************************************************************)
(* The round trip of _save_db and _load_db                                 *)
(***************************************************************************)
MaxRtRecords == 2

\* A store as a batch search caches it and /save-to-database receives it
StoreFull ==
    VDict(<< KV("name", VStr("Gap Factory")), KV("address", VStr("1 Main St")),
             KV("formatted_address", VStr("1 Main St, Troy, MI 48084, USA")),
             KV("city", VStr("Troy")), KV("zip_code", VStr("48084")),
             KV("rating", VFloat("4.5")), KV("user_ratings_total", VInt(120)),
             KV("latitude", VFloat("-83.1")), KV("types", VList(<<VStr("store")>>)),
             KV("price_level", VNone), KV("opening_hours", VStr("{}")) >>)

RtSaved ==
    VDict(<< KV("retailer_name", VStr("Gap")), KV("stores", VList(<<StoreFull, StoreTroy>>)),
             KV("total_stores", VInt(2)), KV("total_cities", VInt(1)),
             KV("date_added", VStr(isoformat(0))) >>)

RtRemoved ==
    VDict(<< KV("retailer_name", VStr("Polo")), KV("stores", VList(<<>>)),
             KV("total_stores", VInt(0)), KV("total_cities", VInt(0)),
             KV("date_added", VStr(isoformat(0))),
             KV("removed", VBool(TRUE)), KV("removed_date", VStr(isoformat(1))) >>)

RtBulk ==
    VDict(<< KV("retailer_name", VStr("Old Navy")), KV("stores", VList(<<StoreNoCity>>)),
             KV("total_stores", VInt(1)), KV("total_cities", VInt(0)),
             KV("source", VStr("csv_upload")), KV("removed", VBool(FALSE)) >>)

\* A record of the old structure: one store, with the search result nested
RtFlat ==
    VDict(<< KV("name", VStr("Gap")), KV("google_store", VDict(<<KV("name", VStr("Gap"))>>)),
             KV("csv_data", VDict(<<>>)), KV("distance", VInt(0)) >>)

RtSamples == {RtSaved, RtRemoved, RtBulk, RtFlat, LegacyRecord}

RECURSIVE SeqsUpTo(_, _)
SeqsUpTo(S, n) ==
    IF n = 0 THEN {<<>>}
    ELSE LET shorter == SeqsUpTo(S, n - 1)
         IN  shorter \cup {Append(q, x) : q \in shorter, x \in S}

RtInit ==
    /\ BrandIdle
    /\ AddrIdle
    /\ AnIdle
    /\ SearchIdle
    /\ db_file \in DbFiles
    /\ markets_file = NoFile
    /\ now = 0
    /\ resp = NoResp
    /\ rt_records \in {VList(q) : q \in SeqsUpTo(RtSamples, MaxRtRecords)}
    /\ rt_phase = "start"
    /\ rt_loaded = VList(<<>>)
    /\ rt_first = NoFile

rt_rest == <<brand_vars, addr_vars, search_vars, an_vars, now, resp, markets_file>>

RtSave ==
    /\ rt_phase = "start"
    /\ db_file' = _save_db(db_file, rt_records)
    /\ rt_first' = db_file'
    /\ rt_phase' = "saved"
    /\ UNCHANGED <<rt_records, rt_loaded, rt_rest>>

RtLoad ==
    /\ rt_phase = "saved"
    /\ rt_loaded' = _load_db(db_file)
    /\ rt_phase' = "loaded"
    /\ UNCHANGED <<db_file, rt_records, rt_first, rt_rest>>

RtSaveAgain ==
    /\ rt_phase = "loaded"
    /\ db_file' = _save_db(db_file, rt_loaded)
    /\ rt_phase' = "resaved"
    /\ UNCHANGED <<rt_records, rt_loaded, rt_first, rt_rest>>

RtNext == RtSave \/ RtLoad \/ RtSaveAgain

SpecRoundTrip == RtInit /\ [][RtNext]_vars

\* C6: saving N retailer records and loading them yields the same N records,
\* field for field and in the same order, and saving what was loaded leaves
\* the file as the first save wrote it.
C6_SaveLoadRoundTrip ==
    /\ rt_phase \in {"loaded", "resaved"} =>
          /\ Len(rt_loaded.items) = Len(rt_records.items)
          /\ \A i \in 1..Len(rt_records.items) : rt_loaded.items[i] = rt_records.items[i]
    /\ rt_phase = "resaved" => db_file = rt_first

\* Two different records were saved over an earlier file, loaded and saved again
C6_Witness ==
    /\ rt_phase = "resaved"
    /\ Len(rt_records.items) = 2
    /\ rt_records.items[1] # rt_records.items[2]
    /\ rt_loaded = rt_records

(***************************************************************************)
(* Loading the two databases: missing and corrupt files                    *)
(***************************************************************************)
MaxUploads == 2

MarketRow(city, state, zips) ==
    VDict(<< KV("City", VStr(city)), KV("State", VStr(state)), KV("Zip Codes", VStr(zips)) >>)

\* one entry of the markets database, as the importer appends it
MarketsEntry(filename, rows, cities, t) ==
    VDict(<< KV("filename", VStr(filename)), KV("data", VList(rows)),
             KV("total_entries", VInt(Len(rows))), KV("total_cities", VInt(cities)),
             KV("date_uploaded", VStr(isoformat(t))) >>)

UploadTroy == MarketsEntry("a.csv", <<MarketRow("Troy", "MI", "48083, 48084")>>, 1, 0)
UploadEmpty == MarketsEntry("b.csv", <<>>, 1, 0)

\* _load_markets_db: the same three outcomes as _load_db, on the markets file
_load_markets_db(f) ==
    IF ~f.exists \/ ~f.readable THEN VList(<<>>)
    ELSE LET r == json_loads(f.content)
         IN  IF r.ok THEN r.v ELSE VList(<<>>)

_save_markets_db(f, records) == [FileOf(json_dumps(records)) EXCEPT !.readable = f.readable]

MarketsFiles ==
    {NoFile, FileOf(json_dumps(VList(<<UploadTroy, UploadEmpty>>)))}
        \cup {FileOf(c) : c \in CorruptContents}

UploadIndexes == 0..MaxUploads

LoadInit ==
    /\ BrandIdle
    /\ AddrIdle
    /\ RtIdle
    /\ SearchIdle
    /\ AnIdle
    /\ db_file \in DbFiles
    /\ markets_file \in MarketsFiles
    /\ now = 0
    /\ resp = NoResp

markets_rest == <<brand_vars, addr_vars, search_vars, rt_vars, an_vars, db_file, now>>

get_markets_database ==
    /\ resp' = Resp("markets_view", TRUE, VNone, Len(_load_markets_db(markets_file).items))
    /\ UNCHANGED <<markets_file, markets_rest>>

delete_markets_upload(upload_index) ==
    LET markets_db == _load_markets_db(markets_file).items IN
    /\ IF upload_index < 0 \/ upload_index >= Len(markets_db)
       THEN /\ resp' = Resp("markets_delete", FALSE, VInt(upload_index), 0)
            /\ UNCHANGED markets_file
       ELSE LET updated == RemoveAt(markets_db, upload_index + 1)
            IN  /\ markets_file' = _save_markets_db(markets_file, VList(updated))
                /\ resp' = Resp("markets_delete", TRUE, VInt(upload_index), Len(updated))
    /\ UNCHANGED markets_rest

clear_markets_database ==
    /\ markets_file' = _save_markets_db(markets_file, VList(<<>>))
    /\ resp' = Resp("markets_clear", TRUE, VNone, 0)
    /\ UNCHANGED markets_rest

LoadNext ==
    \/ retailer_database
    \/ \E retailer \in SaveNames, stores \in SaveStores : save_to_database(retailer, stores)
    \/ \E idx \in Indexes : delete_retailer(idx)
    \/ get_markets_database
    \/ \E upload_index \in UploadIndexes : delete_markets_upload(upload_index)
    \/ clear_markets_database

SpecLoad == LoadInit /\ [][LoadNext]_vars

C9_Unreadable(f) == ~f.exists \/ ~json_loads(f.content).ok

C9_Savers == {"save", "delete", "view", "markets_delete", "markets_clear"}

\* a missing or corrupt file loads as the empty list, and the handlers that
\* only read report an empty collection for it
C9_LoadsEmpty ==
    /\ C9_Unreadable(db_file) =>
          /\ _load_db(db_file) = VList(<<>>)
          /\ resp.op = "view" => resp.success /\ resp.remaining = 0
    /\ C9_Unreadable(markets_file) =>
          /\ _load_markets_db(markets_file) = VList(<<>>)
          /\ resp.op = "markets_view" => resp.success /\ resp.remaining = 0

\* a file changes only in a request that saves, and what the save writes is
\* readable; a view rewrites the file only to migrate records it could read
C9_FileKept ==
    /\ db_file' # db_file =>
          /\ resp'.success /\ resp'.op \in {"save", "delete", "view"}
          /\ ~C9_Unreadable(db_file')
          /\ resp'.op = "view" => ~C9_Unreadable(db_file)
    /\ markets_file' # markets_file =>
          /\ resp'.success /\ resp'.op \in {"markets_delete", "markets_clear"}
          /\ ~C9_Unreadable(markets_file')
    /\ resp'.op \in {"markets_view"} => markets_file' = markets_file

\* C9: _load_db and _load_markets_db return the empty list for a missing or
\* corrupt file without raising, loading leaves the file as it is, and its
\* content stays until a request saves successfully.
C9_LoadNeverRaises == []C9_LoadsEmpty /\ [][C9_FileKept]_vars

\* Both files are corrupt after both have been viewed and a write was refused
C9_Witness ==
    /\ db_file.exists /\ ~json_loads(db_file.content).ok /\ db_file.content # <<>>
    /\ markets_file.exists /\ ~json_loads(markets_file.content).ok
    /\ resp.op = "markets_delete" /\ ~resp.success

(***************************************************************************)
(* Market Analyzer: /analyze                                               *)
(***************************************************************************)
\* a or b
py_or(a, b) == IF truthy(a) THEN a ELSE b

\* the characters \w matches
WordSet == UpperSet \cup LowerSet \cup DigitSet \cup {"_"}

\* \b after position j of s, where s[j] is a word character
boundary_after(s, j) == j >= Len(s) \/ CharAt(s, j + 1) \notin WordSet

\* \b(\d{5})(?:-\d{4})?\b matches at position i of s: with the -dddd group
\* when a boundary follows it, else without the group
zip_match_at(s, i) ==
    /\ i + 4 <= Len(s)
    /\ AllDigits(SubSeq(s, i, i + 4))
    /\ (i = 1 \/ CharAt(s, i - 1) \notin WordSet)
    /\ \/ /\ i + 9 <= Len(s)
          /\ CharAt(s, i + 5) = "-"
          /\ AllDigits(SubSeq(s, i + 6, i + 9))
          /\ boundary_after(s, i + 9)
       \/ boundary_after(s, i + 4)

\* re.search returns the leftmost match; group(1) is the five digits
_extract_zip_from_address(address) ==
    IF ~truthy(address) THEN ""
    ELSE LET s == address.s
             at == {i \in 1..Len(s) : zip_match_at(s, i)}
         IN  IF at = {} THEN ""
             ELSE LET i == CHOOSE i \in at : \A j \in at : i <= j
                  IN  SubSeq(s, i, i + 4)

\* store.get('formatted_address') or store.get('address', '')
store_address(store) ==
    py_or(dict_get(store, "formatted_address", VNone), dict_get(store, "address", VStr("")))

\* A variant that passes over a record whose removed flag is set
counted_entries_active(retailer_entry) ==
    IF truthy(dict_get(retailer_entry, "removed", VBool(FALSE))) THEN <<>>
    ELSE LET stores == dict_get(retailer_entry, "stores", VList(<<retailer_entry>>)).items
         IN  [i \in 1..Len(stores) |->
                 [name |-> dict_get(stores[i], "name", VStr("")),
                  address |-> store_address(stores[i])]]

\* the name and address analyze reads from each store of one record: the
\* record's stores, or for the old structure the record itself
counted_entries(retailer_entry) ==
    IF dict_has(retailer_entry, "stores")
    THEN LET stores == dict_get(retailer_entry, "stores", VList(<<>>)).items
         IN  [i \in 1..Len(stores) |->
                 [name |-> dict_get(stores[i], "name", VStr("")),
                  address |-> store_address(stores[i])]]
    ELSE LET google_store == dict_get(retailer_entry, "google_store", VDict(<<>>))
         IN  << [name |-> py_or(dict_get(retailer_entry, "name", VNone),
                                dict_get(google_store, "name", VStr(""))),
                 address |-> py_or(py_or(dict_get(retailer_entry, "formatted_address", VNone),
                                         dict_get(retailer_entry, "address", VNone)),
                                   dict_get(google_store, "formatted_address", VStr(""))) ] >>

\* A variant that records a name at a ZIP once, however many stores carry it
count_store_once(by_zip, z, name) ==
    dict_set(by_zip, z, dict_set(dict_get(by_zip, z, VDict(<<>>)), name, 1))

\* retailer_by_zip[z][name] = retailer_by_zip[z].get(name, 0) + 1
count_store(by_zip, z, name) ==
    LET names == dict_get(by_zip, z, VDict(<<>>))
    IN  dict_set(by_zip, z, dict_set(names, name, dict_get(names, name, 0) + 1))

RECURSIVE count_entries(_, _)
count_entries(by_zip, entries) ==
    IF entries = <<>> THEN by_zip
    ELSE LET z == _extract_zip_from_address(Head(entries).address)
             name == Head(entries).name
         IN  count_entries(IF z = "" \/ ~truthy(name) THEN by_zip
                           ELSE count_store(by_zip, z, name.s),
                           Tail(entries))

\* retailer_by_zip: ZIP -> name -> count, both in insertion order
RECURSIVE retailer_by_zip_of(_, _)
retailer_by_zip_of(by_zip, retailer_records) ==
    IF retailer_records = <<>> THEN by_zip
    ELSE retailer_by_zip_of(count_entries(by_zip, counted_entries(Head(retailer_records))),
                            Tail(retailer_records))

\* [z.strip() for z in zip_codes_str.split(',') if z.strip()]
row_zip_codes(row) ==
    LET zip_codes_str ==
            str_strip(py_or(py_or(dict_get(row, "Zip Codes", VNone),
                                  dict_get(row, "Zip Code", VNone)), VStr("")).s)
        parts == str_split_sep(zip_codes_str, ",")
    IN  IF zip_codes_str = "" THEN <<>>
        ELSE SelectSeq([i \in 1..Len(parts) |-> str_strip(parts[i])], LAMBDA z : z # "")

seq_has(q, x) == \E i \in 1..Len(q) : q[i] = x

all_market_zips_of(markets_rows) ==
    UNION {{row_zip_codes(markets_rows[i])[j] : j \in 1..Len(row_zip_codes(markets_rows[i]))}
               : i \in 1..Len(markets_rows)}

\* (row.get(field) or '').strip() of the first market row listing the ZIP;
\* '' when no row lists it (the code's None, tested the same way)
RECURSIVE market_field(_, _, _)
market_field(markets_rows, zip_code, field) ==
    IF markets_rows = <<>> THEN ""
    ELSE IF seq_has(row_zip_codes(Head(markets_rows)), zip_code)
         THEN str_strip(py_or(dict_get(Head(markets_rows), field, VNone), VStr("")).s)
         ELSE market_field(Tail(markets_rows), zip_code, field)

\* the inner loop over one record's stores: it stops at the first store at
\* the ZIP whose field is truthy and takes that field, stripped
RECURSIVE store_field_in(_, _, _)
store_field_in(stores, zip_code, field) ==
    IF stores = <<>> THEN ""
    ELSE IF /\ _extract_zip_from_address(store_address(Head(stores))) = zip_code
            /\ truthy(dict_get(Head(stores), field, VNone))
         THEN str_strip(dict_get(Head(stores), field, VStr("")).s)
         ELSE store_field_in(Tail(stores), zip_code, field)

\* the loop over the records: a record with stores ends the loop only when
\* the value found is not empty; a record of the old structure that matches
\* ends it whatever its field strips to
RECURSIVE record_field(_, _, _)
record_field(retailer_records, zip_code, field) ==
    IF retailer_records = <<>> THEN ""
    ELSE LET retailer_entry == Head(retailer_records) IN
         IF dict_has(retailer_entry, "stores")
         THEN LET found == store_field_in(dict_get(retailer_entry, "stores", VList(<<>>)).items,
                                          zip_code, field)
              IN  IF found # "" THEN found
                  ELSE record_field(Tail(retailer_records), zip_code, field)
         ELSE IF /\ _extract_zip_from_address(store_address(retailer_entry)) = zip_code
                 /\ truthy(dict_get(retailer_entry, field, VNone))
              THEN str_strip(dict_get(retailer_entry, field, VStr("")).s)
              ELSE record_field(Tail(retailer_records), zip_code, field)

\* city_name for one ZIP
resolve_city(markets_rows, retailer_records, zip_code) ==
    LET from_market == market_field(markets_rows, zip_code, "City")
        from_store == IF from_market # "" THEN from_market
                      ELSE record_field(retailer_records, zip_code, "city")
    IN  IF from_store # "" THEN from_store ELSE "ZIP " \o zip_code

\* state_name for one ZIP
resolve_state(markets_rows, retailer_records, zip_code) ==
    LET from_market == market_field(markets_rows, zip_code, "State")
    IN  IF from_market # "" THEN from_market
        ELSE record_field(retailer_records, zip_code, "state")

\* retailers[retailer] = retailers.get(retailer, 0) + count, for each pair
RECURSIVE add_counts(_, _)
add_counts(retailers, pairs) ==
    IF pairs = <<>> THEN retailers
    ELSE add_counts(dict_set(retailers, Head(pairs).k,
                             dict_get(retailers, Head(pairs).k, 0) + Head(pairs).v),
                    Tail(pairs))

\* city_aggregated_data: city -> retailers, zip_codes, is_reflex_market, state
RECURSIVE aggregate(_, _, _, _)
\* A variant in which the last ZIP of a city decides its reflex flag
RECURSIVE aggregate_last_zip(_, _, _, _)
aggregate_last_zip(city_aggregated_data, zip_items, markets_rows, retailer_records) ==
    IF zip_items = <<>> THEN city_aggregated_data
    ELSE LET zip_code == Head(zip_items).k
             city_name == resolve_city(markets_rows, retailer_records, zip_code)
             state_name == resolve_state(markets_rows, retailer_records, zip_code)
             data == dict_get(city_aggregated_data, city_name,
                              [retailers |-> VDict(<<>>), zip_codes |-> {},
                               is_reflex_market |-> FALSE, state |-> state_name])
             updated ==
                 [retailers |-> add_counts(data.retailers, Head(zip_items).v.items),
                  zip_codes |-> data.zip_codes \cup {zip_code},
                  is_reflex_market |-> zip_code \in all_market_zips_of(markets_rows),
                  state |-> data.state]
         IN  aggregate_last_zip(dict_set(city_aggregated_data, city_name, updated),
                                Tail(zip_items), markets_rows, retailer_records)

aggregate(city_aggregated_data, zip_items, markets_rows, retailer_records) ==
    IF zip_items = <<>> THEN city_aggregated_data
    ELSE LET zip_code == Head(zip_items).k
             city_name == resolve_city(markets_rows, retailer_records, zip_code)
             state_name == resolve_state(markets_rows, retailer_records, zip_code)
             data == dict_get(city_aggregated_data, city_name,
                              [retailers |-> VDict(<<>>), zip_codes |-> {},
                               is_reflex_market |-> FALSE, state |-> state_name])
             updated ==
                 [retailers |-> add_counts(data.retailers, Head(zip_items).v.items),
                  zip_codes |-> data.zip_codes \cup {zip_code},
                  is_reflex_market |-> data.is_reflex_market
                                          \/ zip_code \in all_market_zips_of(markets_rows),
                  state |-> data.state]
         IN  aggregate(dict_set(city_aggregated_data, city_name, updated),
                       Tail(zip_items), markets_rows, retailer_records)

\* the characters of the model's strings in code point order
CharOrder == " &'(),-.0123456789ABCDEFGHIJKLMNOPQRSTUVWXYZ_abcdefghijklmnopqrstuvwxyz"

Ord == [c \in {CharAt(CharOrder, i) : i \in 1..Len(CharOrder)} |-> IndexOfChar(CharOrder, c)]

\* a < b for str
RECURSIVE str_lt(_, _)
str_lt(a, b) ==
    IF b = "" THEN FALSE
    ELSE IF a = "" THEN TRUE
    ELSE IF CharAt(a, 1) = CharAt(b, 1)
         THEN str_lt(SubSeq(a, 2, Len(a)), SubSeq(b, 2, Len(b)))
         ELSE Ord[CharAt(a, 1)] < Ord[CharAt(b, 1)]

\* sorted(S) for a set of distinct strings
RECURSIVE sorted_strs(_)
sorted_strs(S) ==
    IF S = {} THEN <<>>
    ELSE LET least == CHOOSE x \in S : \A y \in S \ {x} : str_lt(x, y)
         IN  <<least>> \o sorted_strs(S \ {least})

\* sep.join(parts)
RECURSIVE str_join(_, _)
str_join(sep, parts) ==
    IF parts = <<>> THEN ""
    ELSE IF Len(parts) = 1 THEN parts[1]
    ELSE parts[1] \o sep \o str_join(sep, Tail(parts))

\* "name (count)" when count > 1, else the name
retailer_label(retailer, count) ==
    IF count > 1 THEN retailer \o " (" \o int_str(count) \o ")" ELSE retailer

RECURSIVE sum_counts(_)
sum_counts(pairs) == IF pairs = <<>> THEN 0 ELSE Head(pairs).v + sum_counts(Tail(pairs))

\* one result row
result_row(city, data) ==
    LET names == sorted_strs({data.retailers.items[i].k : i \in 1..Len(data.retailers.items)})
        zip_codes_list == SubSeq(sorted_strs(data.zip_codes), 1,
                                 IF Cardinality(data.zip_codes) < 5
                                 THEN Cardinality(data.zip_codes) ELSE 5)
    IN  [City |-> city,
         State |-> data.state,
         Prioritized_Zip_Codes |-> str_join(", ", zip_codes_list),
         Retailers |-> str_join(", ", [i \in 1..Len(names) |->
                           retailer_label(names[i], dict_get(data.retailers, names[i], 0))]),
         Total_Stores |-> sum_counts(data.retailers.items),
         Is_Reflex_Market |-> data.is_reflex_market]

\* A variant that puts a row before the rows of equal total
RECURSIVE insert_row_before_equals(_, _)
insert_row_before_equals(sorted, row) ==
    IF sorted = <<>> THEN <<row>>
    ELSE IF Head(sorted).Total_Stores > row.Total_Stores
         THEN <<Head(sorted)>> \o insert_row_before_equals(Tail(sorted), row)
         ELSE <<row>> \o sorted

\* the place of one more row in rows already ordered by descending total: after
\* every row whose total is at least its own
RECURSIVE insert_row(_, _)
insert_row(sorted, row) ==
    IF sorted = <<>> THEN <<row>>
    ELSE IF Head(sorted).Total_Stores >= row.Total_Stores
         THEN <<Head(sorted)>> \o insert_row(Tail(sorted), row)
         ELSE <<row>> \o sorted

\* results.sort(key=Total Stores, reverse=True): stable, so rows with equal
\* totals keep their order
RECURSIVE sort_results(_, _)
sort_results(sorted, rows) ==
    IF rows = <<>> THEN sorted
    ELSE sort_results(insert_row(sorted, Head(rows)), Tail(rows))

\* the rows analyze renders from market rows and retailer records
analyze_rows(markets_rows, retailer_records) ==
    LET retailer_by_zip == retailer_by_zip_of(VDict(<<>>), retailer_records)
        city_aggregated_data ==
            aggregate(VDict(<<>>), retailer_by_zip.items, markets_rows, retailer_records)
        cities == city_aggregated_data.items
    IN  sort_results(<<>>, [i \in 1..Len(cities) |-> result_row(cities[i].k, cities[i].v)])

\* A variant that falls back on the rows of every persisted upload
RECURSIVE all_upload_rows(_)
all_upload_rows(markets_db) ==
    IF markets_db = <<>> THEN <<>>
    ELSE dict_get(Head(markets_db), "data", VList(<<>>)).items \o all_upload_rows(Tail(markets_db))

markets_rows_all(session_rows, f) ==
    IF session_rows # <<>> THEN session_rows ELSE all_upload_rows(_load_markets_db(f).items)

\* session.get('markets_rows', []), else the data of the most recent upload
markets_rows_for(session_rows, f) ==
    LET markets_db == _load_markets_db(f).items
    IN  IF session_rows # <<>> THEN session_rows
        ELSE IF markets_db # <<>>
             THEN dict_get(markets_db[Len(markets_db)], "data", VList(<<>>)).items
             ELSE <<>>

(***************************************************************************)
(* Analyze over a few retailer databases and market uploads                *)
(***************************************************************************)
MaxAnRecords == 2

AnStore(name, faddr, city) ==
    VDict(<< KV("name", VStr(name)), KV("formatted_address", VStr(faddr)),
             KV("city", VStr(city)) >>)

AnGapTroy1 == AnStore("Gap", "1 Main St, Troy, MI 48084, USA", "Troy")
AnGapTroy2 == AnStore("Gap", "2 Main St, Troy, MI 48084-1234", "Troy")
AnPoloTroy == AnStore("Polo", "3 Main St, Troy, MI 48083", "Troy")
AnPoloBlank == AnStore("Polo", "5 Elm St, Boston, MA 02108", " ")
AnPoloBoston == AnStore("Polo", "6 Elm St, Boston, MA 02108", "Boston")
AnAnnNoCity == AnStore("Ann", "7 Oak St 10002", "")
AnNoName == AnStore("", "8 Oak St, Troy, MI 48084", "Troy")
AnNoZip == AnStore("Gap", "9 Oak St", "Troy")
AnBelk(n) == AnStore("Belk", int_str(n) \o " Hill Rd, Troy, MI 4800" \o int_str(n), "Troy")

AnRecord(retailer, stores) ==
    VDict(<< KV("retailer_name", VStr(retailer)), KV("stores", VList(stores)),
             KV("total_stores", VInt(Len(stores))) >>)

\* A record of the old structure: the store's fields on the record itself
AnOld ==
    VDict(<< KV("name", VStr("Gap")), KV("address", VStr("9 Pine St, Detroit, MI 48201")),
             KV("city", VStr("Detroit")) >>)

AnRecords ==
    { AnRecord("Gap", <<AnGapTroy1, AnGapTroy2, AnNoZip>>),
      AnRecord("Polo", <<AnPoloTroy, AnPoloBlank, AnPoloBoston>>),
      AnRecord("Ann", <<AnAnnNoCity, AnNoName, AnPoloBoston>>),
      AnRecord("Belk", <<AnBelk(1), AnBelk(2), AnBelk(3), AnBelk(4), AnBelk(5)>>),
      AnOld }

RowsTroy == <<MarketRow("Troy", "MI", "48083, 48084")>>
RowsTwo == <<MarketRow("Detroit", "MI", "48201,48084"), MarketRow("Troy", "MI", " 48084, 48083")>>

AnMarketsFiles ==
    {NoFile, FileOf(json_dumps(VList(<< MarketsEntry("a.csv", RowsTwo, 2, 0),
                                        MarketsEntry("b.csv", RowsTroy, 1, 1) >>)))}

AnInit ==
    /\ BrandIdle
    /\ AddrIdle
    /\ RtIdle
    /\ SearchIdle
    /\ db_file \in {_save_db(NoFile, VList(q)) : q \in SeqsUpTo(AnRecords, MaxAnRecords)}
    /\ markets_file \in AnMarketsFiles
    /\ session_markets_rows \in {<<>>, RowsTroy, RowsTwo}
    /\ results = <<>>
    /\ now = 0
    /\ resp = NoResp

an_rest == <<brand_vars, addr_vars, search_vars, rt_vars, db_file, markets_file, now>>

\* POST /analyze
analyze ==
    LET markets_rows == markets_rows_for(session_markets_rows, markets_file)
        retailer_records == _load_db(db_file).items
    IN  /\ results' = IF markets_rows = <<>> \/ retailer_records = <<>> THEN <<>>
                      ELSE analyze_rows(markets_rows, retailer_records)
        /\ resp' = Resp("analyze", TRUE, VNone, Len(results'))
        /\ UNCHANGED <<session_markets_rows, an_rest>>

\* GET /markets: the session's rows, else the most recent upload, which the
\* session then keeps
markets_get ==
    LET table_rows == markets_rows_for(session_markets_rows, markets_file)
    IN  /\ session_markets_rows' = table_rows
        /\ resp' = Resp("markets_page", TRUE, VNone, Len(table_rows))
        /\ UNCHANGED <<results, an_rest>>

AnNext == analyze \/ markets_get

SpecAnalyze == AnInit /\ [][AnNext]_vars

\* the stores the records hold, each with its name, ZIP and resolved city
C4_Entries(rows, records) ==
    UNION {{ [name |-> counted_entries(records[i])[j].name.s,
              zip |-> _extract_zip_from_address(counted_entries(records[i])[j].address),
              city |-> resolve_city(rows, records,
                          _extract_zip_from_address(counted_entries(records[i])[j].address)),
              at |-> <<i, j>>] : j \in 1..Len(counted_entries(records[i]))}
           : i \in 1..Len(records)}

\* the number of stores called name whose ZIP resolves to city
C4_Count(entries, city, name) ==
    Cardinality({e \in entries : e.name = name /\ e.zip # "" /\ e.city = city})

C4_Names(entries, city) ==
    {e.name : e \in {x \in entries : x.name # "" /\ x.zip # "" /\ x.city = city}}

C4_Label(name, n) == IF n > 1 THEN name \o " (" \o int_str(n) \o ")" ELSE name

RECURSIVE C4_Sum(_, _, _)
C4_Sum(entries, city, names) ==
    IF names = {} THEN 0
    ELSE LET n == CHOOSE n \in names : TRUE
         IN  C4_Count(entries, city, n) + C4_Sum(entries, city, names \ {n})

\* the entries of a row's Retailers text
C4_Items(row) ==
    LET parts == str_split_sep(row.Retailers, ",")
    IN  [i \in 1..Len(parts) |-> str_lstrip(parts[i])]

C4_RowsRight(entries) ==
    \A r \in 1..Len(results) :
        LET row == results[r]
            items == C4_Items(row)
            names == C4_Names(entries, row.City)
        IN  /\ names # {}
            /\ {items[i] : i \in 1..Len(items)}
                  = {C4_Label(n, C4_Count(entries, row.City, n)) : n \in names}
            /\ Len(items) = Cardinality(names)
            /\ row.Total_Stores = C4_Sum(entries, row.City, names)

\* C4: in every row analyze renders, each retailer name stands once, as
\* "name" when one store of that name has a ZIP resolving to the row's city
\* and as "name (n)" when n > 1 do, no other name stands there, and Total
\* Stores is the sum of these counts.
C4_RowCounts ==
    resp.op = "analyze" =>
        C4_RowsRight(C4_Entries(markets_rows_for(session_markets_rows, markets_file),
                                _load_db(db_file).items))

\* Troy holds two Gap stores and one Polo store, beside another city
C4_Witness ==
    /\ resp.op = "analyze"
    /\ Len(results) >= 2
    /\ \E r \in 1..Len(results) :
           /\ results[r].City = "Troy"
           /\ results[r].Retailers = "Gap (2), Polo"
           /\ results[r].Total_Stores = 3

\* position a of the walk over the records comes before position b
C13_Before(a, b) == a[1] < b[1] \/ (a[1] = b[1] /\ a[2] < b[2])

\* the positions of the counted stores whose ZIP resolves to city
C13_Positions(entries, city) ==
    {e.at : e \in {x \in entries : x.name # "" /\ x.zip # "" /\ x.city = city}}

\* city a is first met before city b: the earliest store of a comes first
C13_MetBefore(entries, a, b) ==
    \E x \in C13_Positions(entries, a) :
        \A y \in C13_Positions(entries, b) : C13_Before(x, y)

C13_Ordered(entries) ==
    \A r, q \in 1..Len(results) :
        r < q =>
            /\ results[r].Total_Stores >= results[q].Total_Stores
            /\ (results[r].Total_Stores = results[q].Total_Stores =>
                   C13_MetBefore(entries, results[r].City, results[q].City))

\* C13: the rows analyze returns are in non-increasing order of Total
\* Stores, and rows of equal Total Stores are in the order in which their
\* cities were first met during aggregation.
C13_SortedStable ==
    resp.op = "analyze" =>
        C13_Ordered(C4_Entries(markets_rows_for(session_markets_rows, markets_file),
                               _load_db(db_file).items))

C13_WitnessIn(entries) ==
    \E r, q \in 1..Len(results) :
        /\ r < q
        /\ results[r].Total_Stores > results[q].Total_Stores
        /\ C13_MetBefore(entries, results[q].City, results[r].City)

\* Three rows: the city met last holds most stores and comes first, the two
\* others hold as many stores as each other
C13_Witness ==
    /\ resp.op = "analyze"
    /\ Len(results) = 3
    /\ results[2].Total_Stores = results[3].Total_Stores
    /\ C13_WitnessIn(C4_Entries(markets_rows_for(session_markets_rows, markets_file),
                                _load_db(db_file).items))

\* the ZIP stands in the Zip Codes text of one of the market rows
C14_InMarket(rows, z) ==
    \E i \in 1..Len(rows) :
        LET parts == str_split_sep(dict_get(rows[i], "Zip Codes", VStr("")).s, ",")
        IN  \E j \in 1..Len(parts) : str_strip(parts[j]) = z

\* the ZIPs of the counted stores that resolve to city
C14_ZipsOf(entries, city) ==
    {e.zip : e \in {x \in entries : x.name # "" /\ x.zip # "" /\ x.city = city}}

C14_RowsRight(rows, entries) ==
    \A r \in 1..Len(results) :
        results[r].Is_Reflex_Market
            <=> \E z \in C14_ZipsOf(entries, results[r].City) : C14_InMarket(rows, z)

\* C14: a row of analyze has Is Reflex Market true exactly when at least one
\* of the ZIPs grouped under its city, shown in the row or not, stands in
\* the ZIP set of the uploaded market rows.
C14_ReflexMarket ==
    resp.op = "analyze" =>
        LET rows == markets_rows_for(session_markets_rows, markets_file)
        IN  C14_RowsRight(rows, C4_Entries(rows, _load_db(db_file).items))

\* Troy groups six ZIPs; the only one of the market rows is the sixth, which
\* the row does not show, and the row is a reflex market; another row is not
C14_Witness ==
    /\ resp.op = "analyze"
    /\ \E r \in 1..Len(results) :
           /\ results[r].City = "Troy"
           /\ results[r].Prioritized_Zip_Codes = "48001, 48002, 48003, 48004, 48005"
           /\ results[r].Total_Stores = 7
           /\ results[r].Is_Reflex_Market
    /\ LET rows == markets_rows_for(session_markets_rows, markets_file)
       IN  \A n \in 1..5 : ~C14_InMarket(rows, "4800" \o int_str(n))

\* every store of the database with its ZIP and city, in the order analyze
\* walks them
RECURSIVE C5_Stores(_)
C5_Stores(records) ==
    IF records = <<>> THEN <<>>
    ELSE LET e == Head(records)
             stores == IF dict_has(e, "stores") THEN dict_get(e, "stores", VList(<<>>)).items
                       ELSE <<e>>
         IN  [i \in 1..Len(stores) |->
                 [zip |-> _extract_zip_from_address(store_address(stores[i])),
                  city |-> str_strip(dict_get(stores[i], "city", VStr("")).s)]]
             \o C5_Stores(Tail(records))

C5_Expected(markets_rows, stores, zip_code) ==
    LET listing == {i \in 1..Len(markets_rows) : seq_has(row_zip_codes(markets_rows[i]), zip_code)}
        with_city == {i \in 1..Len(stores) : stores[i].zip = zip_code /\ stores[i].city # ""}
    IN  IF listing # {}
        THEN str_strip(dict_get(markets_rows[CHOOSE i \in listing : \A j \in listing : i <= j],
                                "City", VStr("")).s)
        ELSE IF with_city # {}
        THEN stores[CHOOSE i \in with_city : \A j \in with_city : i <= j].city
        ELSE "ZIP " \o zip_code

C5_RowOf(zip_code) ==
    {r \in 1..Len(results) :
        seq_has(row_zip_codes(MarketRow("", "", results[r].Prioritized_Zip_Codes)), zip_code)}

C5_RowsRight(markets_rows, records, stores) ==
    \A e \in C4_Entries(markets_rows, records) :
        (e.zip # "" /\ e.name # "") =>
            /\ C5_RowOf(e.zip) # {}
            /\ \A r \in C5_RowOf(e.zip) : results[r].City = C5_Expected(markets_rows, stores, e.zip)

\* C5: the row holding a store ZIP is labelled with the City of the first
\* market row listing the ZIP, else with the city of the first store at that
\* ZIP that has one, else with "ZIP <code>".
C5_CityResolution ==
    (resp.op = "analyze" /\ results # <<>>) =>
        C5_RowsRight(markets_rows_for(session_markets_rows, markets_file),
                     _load_db(db_file).items, C5_Stores(_load_db(db_file).items))

\* at each ZIP either every store has a city or none has
C5_NoBlankCity(stores) ==
    \A i, j \in 1..Len(stores) :
        (stores[i].zip # "" /\ stores[i].zip = stores[j].zip) =>
            (stores[i].city = "") = (stores[j].city = "")

\* the order of C5 holds for every database in which no ZIP has both a store
\* with a city and a store with a blank one
C5_ResolutionWithoutBlanks ==
    C5_NoBlankCity(C5_Stores(_load_db(db_file).items)) => C5_CityResolution

(***************************************************************************)
(* Market Importer: POST /markets                                          *)
(***************************************************************************)
\* Part of the major_cities literal, in its order; a key written twice keeps
\* the later state
major_cities ==
    << <<"austin", "TX">>, <<"aurora", "IL">>, <<"aurora", "CO">>,
       <<"salem", "OR">>, <<"detroit", "MI">> >>

in_major_cities(city_lower) == \E i \in 1..Len(major_cities) : major_cities[i][1] = city_lower

major_city_state(city_lower) ==
    LET at == {i \in 1..Len(major_cities) : major_cities[i][1] = city_lower}
    IN  major_cities[CHOOSE i \in at : \A j \in at : j <= i][2]

\* nomi._data, the reference dataset: place_name, state_code, postal_code
geo_df ==
    << <<"Troy", "MI", "48083">>, <<"Troy", "MI", "48084">>, <<"Troy", "NY", "12180">>,
       <<"Austin", "TX", "73301">>, <<"Salem", "OR", "97301">>, <<"Detroit", "MI", "48201">> >>

\* the rows whose place_name equals the city, case folded
mask_city(city) == {i \in 1..Len(geo_df) : str_lower(geo_df[i][1]) = str_lower(city)}

\* value_counts().index[0].upper(): the state most rows of the city carry
most_common_state(city) ==
    LET cand_states == {geo_df[i][2] : i \in mask_city(city)}
        count(st) == Cardinality({i \in mask_city(city) : geo_df[i][2] = st})
    IN  str_upper(CHOOSE st \in cand_states : \A other \in cand_states \ {st} : count(st) > count(other))

\* city and state of one entry; ok is false where the loop continues
entry_city_state(entry) ==
    IF entry = "" THEN [ok |-> FALSE, city |-> "", state |-> ""]
    ELSE IF HasChar(entry, ",")
    THEN LET parts == str_split_sep(entry, ",")
         IN  [ok |-> TRUE, city |-> str_strip(parts[1]), state |-> str_upper(str_strip(parts[2]))]
    ELSE IF in_major_cities(str_strip(str_lower(entry)))
    THEN [ok |-> TRUE, city |-> entry, state |-> major_city_state(str_strip(str_lower(entry)))]
    ELSE IF mask_city(entry) = {} THEN [ok |-> FALSE, city |-> entry, state |-> ""]
    ELSE [ok |-> TRUE, city |-> entry, state |-> most_common_state(entry)]

\* the ZIP codes of one city: what Zippopotam returned, else the reference
\* rows of that city and state
zip_codes_of(city, state, reply) ==
    IF reply # <<>> THEN {reply[i] : i \in 1..Len(reply)}
    ELSE {geo_df[i][3] : i \in {j \in mask_city(city) : str_upper(geo_df[j][2]) = state}}

\* the row one entry adds to zip_city_rows, if any
rows_of_entry(entry, reply) ==
    LET e == entry_city_state(entry)
        zip_codes == zip_codes_of(e.city, e.state, reply)
    IN  IF ~e.ok \/ zip_codes = {} THEN <<>>
        ELSE <<MarketRow(e.city, e.state, str_join(", ", sorted_strs(zip_codes)))>>

RECURSIVE zip_city_rows_of(_, _)
zip_city_rows_of(entries, replies) ==
    IF entries = <<>> THEN <<>>
    ELSE rows_of_entry(Head(entries), Head(replies)) \o zip_city_rows_of(Tail(entries), Tail(replies))

\* a check of the filename that asks for a dot only
allowed_file_any(filename) == str_contains(filename, ".")

\* filename.rsplit('.', 1)[1].lower() in ALLOWED_EXTENSIONS, for a filename
\* with a dot
allowed_file(filename) ==
    /\ str_contains(filename, ".")
    /\ LET parts == str_split_sep(filename, ".")
       IN  str_lower(parts[Len(parts)]) = "csv"

\* the first column of the uploaded CSV: distinct, trimmed, not null
CsvUploads ==
    { <<"Austin, TX", "Troy">>,
      <<"Detroit, MI", "Detroit">>,
      <<"Austin,", "Nowhere">>,
      <<"", "aurora", "Salem , or, x">>,
      <<"Nowhere, ZZ">> }

\* what zips_from_zippopotam can return for one request: nothing (no such
\* place, a failure, a timeout) or the post codes of the places answered
ZippoReplies == {<<>>, <<"73344", "73301">>}

MarketsInit ==
    /\ BrandIdle
    /\ AddrIdle
    /\ RtIdle
    /\ SearchIdle
    /\ db_file = NoFile
    /\ markets_file \in {NoFile, FileOf(<<>>)}
    /\ session_markets_rows = <<>>
    /\ results = <<>>
    /\ now = 0
    /\ resp = NoResp

mk_rest == <<brand_vars, addr_vars, search_vars, rt_vars, db_file, results, now>>

\* the names of the uploaded file; "" when none was chosen
MarketsFilenames == {"", "markets.csv", "markets.xlsx"}

\* POST /markets with a CSV pandas can read; replies[i] is the Zippopotam
\* answer to the request for entry i
markets_post(filename, entries, replies) ==
    IF filename = "" \/ ~allowed_file(filename)
    THEN /\ resp' = Resp("markets_rejected", FALSE, VStr(filename), 0)
         /\ UNCHANGED <<session_markets_rows, markets_file, mk_rest>>
    ELSE LET table_rows == zip_city_rows_of(entries, replies)
             markets_entry == MarketsEntry(filename, table_rows, Len(entries), now)
             existing_markets == _load_markets_db(markets_file).items
         IN  /\ Len(existing_markets) < MaxUploads
             /\ session_markets_rows' = table_rows
             /\ markets_file' = _save_markets_db(markets_file,
                                                 VList(Append(existing_markets, markets_entry)))
             /\ resp' = Resp("markets_upload", TRUE,
                             VList([i \in 1..Len(entries) |-> VStr(entries[i])]), Len(table_rows))
             /\ UNCHANGED mk_rest

\* POST /clear-markets
clear_markets ==
    /\ session_markets_rows' = <<>>
    /\ markets_file' = IF markets_file.exists THEN FileOf(json_dumps(VList(<<>>))) ELSE markets_file
    /\ resp' = Resp("markets_clear_all", TRUE, VNone, 0)
    /\ UNCHANGED mk_rest

MarketsNext ==
    \/ \E filename \in MarketsFilenames, entries \in CsvUploads :
          \E replies \in [1..Len(entries) -> ZippoReplies] :
              markets_post(filename, entries, replies)
    \/ markets_get
    \/ clear_markets

SpecMarkets == MarketsInit /\ [][MarketsNext]_vars

\* an entry that names no state, is not in the major-city table and matches
\* no place of the reference dataset
C8_Unresolvable(entry) ==
    /\ ~HasChar(entry, ",")
    /\ ~in_major_cities(str_strip(str_lower(entry)))
    /\ mask_city(entry) = {}

C8_RowState(row) == str_strip(dict_get(row, "State", VStr("")).s)

\* C8: after an upload no row of the importer's output has an empty state,
\* an entry whose state cannot be resolved has no row, and the upload
\* succeeds.
C8_NoEmptyState ==
    resp.op = "markets_upload" =>
        /\ resp.success
        /\ \A i \in 1..Len(session_markets_rows) : C8_RowState(session_markets_rows[i]) # ""
        /\ \A e \in 1..Len(resp.idx.items) :
               C8_Unresolvable(resp.idx.items[e].s) =>
                   \A i \in 1..Len(session_markets_rows) :
                       dict_get(session_markets_rows[i], "City", VNone) # resp.idx.items[e]

\* the same, where every row without a state is the row of an entry that
\* ends its city with a comma and to which Zippopotam gave post codes
C8_EmptyStateOnlyAfterComma ==
    resp.op = "markets_upload" =>
        /\ resp.success
        /\ \A i \in 1..Len(session_markets_rows) :
               C8_RowState(session_markets_rows[i]) = "" =>
                   \E e \in 1..Len(resp.idx.items) :
                       /\ HasChar(resp.idx.items[e].s, ",")
                       /\ entry_city_state(resp.idx.items[e].s).state = ""
                       /\ entry_city_state(resp.idx.items[e].s).city
                             = dict_get(session_markets_rows[i], "City", VStr("")).s
        /\ \A e \in 1..Len(resp.idx.items) :
               C8_Unresolvable(resp.idx.items[e].s) =>
                   \A i \in 1..Len(session_markets_rows) :
                       dict_get(session_markets_rows[i], "City", VNone) # resp.idx.items[e]

\* the ZIP codes of a row's Zip Codes text, as the text lists them: the
\* parts between the commas, each but the first after one space
C18_Zips(row) ==
    LET parts == str_split_sep(dict_get(row, "Zip Codes", VStr("")).s, ",")
    IN  [i \in 1..Len(parts) |->
            IF i > 1 /\ Len(parts[i]) > 0 /\ CharAt(parts[i], 1) = " "
            THEN SubSeq(parts[i], 2, Len(parts[i])) ELSE parts[i]]

\* a ZIP list is non-empty, ascending without repeats, and joined by commas
C18_ZipListRight(row) ==
    LET zips == C18_Zips(row)
    IN  /\ Len(zips) >= 1
        /\ \A i \in 1..Len(zips) : zips[i] # "" /\ AllDigits(zips[i])
        /\ \A i \in 1..(Len(zips) - 1) : str_lt(zips[i], zips[i + 1])

C18_CityState(row) ==
    <<dict_get(row, "City", VStr("")).s, dict_get(row, "State", VStr("")).s>>

\* C18: the rows of one Market Importer upload hold one row per city: no two
\* rows carry the same city and state, and the ZIP list of every row is
\* non-empty, sorted ascending, free of duplicates and joined by commas.
C18_OneRowPerCity ==
    resp.op = "markets_upload" =>
        /\ \A i, j \in 1..Len(session_markets_rows) :
               C18_CityState(session_markets_rows[i]) = C18_CityState(session_markets_rows[j])
                   => i = j
        /\ \A i \in 1..Len(session_markets_rows) : C18_ZipListRight(session_markets_rows[i])

\* C18, the ZIP lists alone: every row of an upload carries a non-empty ZIP
\* list, sorted ascending, free of duplicates and joined by commas.
C18_ZipLists ==
    resp.op = "markets_upload" =>
        \A i \in 1..Len(session_markets_rows) : C18_ZipListRight(session_markets_rows[i])

(***************************************************************************)
(* Analyze between uploads and clears of the market data                   *)
(***************************************************************************)
SessionUploads == {<<"Troy, MI">>, <<"Detroit, MI", "Troy">>}

SessionDb ==
    _save_db(NoFile, VList(<< AnRecord("Gap", <<AnGapTroy1, AnGapTroy2, AnNoZip>>),
                              AnRecord("Polo", <<AnPoloTroy, AnPoloBoston>>), AnOld >>))

SessionInit ==
    /\ BrandIdle
    /\ AddrIdle
    /\ RtIdle
    /\ SearchIdle
    /\ db_file = SessionDb
    /\ markets_file = NoFile
    /\ session_markets_rows = <<>>
    /\ results = <<>>
    /\ now = 0
    /\ resp = NoResp

\* the next request comes from a browser whose session holds no market rows
drop_session ==
    /\ session_markets_rows # <<>>
    /\ session_markets_rows' = <<>>
    /\ resp' = NoResp
    /\ UNCHANGED <<results, an_rest>>

SessionNext ==
    \/ \E entries \in SessionUploads :
          \E replies \in [1..Len(entries) -> ZippoReplies] :
              markets_post("markets.csv", entries, replies)
    \/ clear_markets_database
    \/ \E upload_index \in UploadIndexes : delete_markets_upload(upload_index)
    \/ clear_markets
    \/ markets_get
    \/ analyze
    \/ drop_session

SpecSession == SessionInit /\ [][SessionNext]_vars

\* the rows analyze computes from the two files alone
C16_FromPersisted ==
    LET markets_db == _load_markets_db(markets_file).items
        rows == IF markets_db = <<>> THEN <<>>
                ELSE dict_get(markets_db[Len(markets_db)], "data", VList(<<>>)).items
        records == _load_db(db_file).items
    IN  IF rows = <<>> \/ records = <<>> THEN <<>> ELSE analyze_rows(rows, records)

\* C16: the rows an analyze request returns are determined by the current
\* contents of the two persisted collections alone, whatever was uploaded,
\* cleared or viewed before, and the request writes neither collection.
C16_PersistedOnly ==
    /\ [](resp.op = "analyze" => results = C16_FromPersisted)
    /\ [][resp'.op = "analyze" => (db_file' = db_file /\ markets_file' = markets_file)]_vars

\* C16, what the request reads: the market rows of the session when it
\* holds any, else those of the most recent upload; and it writes neither
\* collection.
C16_SessionThenPersisted ==
    /\ [](resp.op = "analyze" =>
             results = LET rows == markets_rows_for(session_markets_rows, markets_file)
                           records == _load_db(db_file).items
                       IN  IF rows = <<>> \/ records = <<>> THEN <<>>
                           ELSE analyze_rows(rows, records))
    /\ [][resp'.op = "analyze" => (db_file' = db_file /\ markets_file' = markets_file)]_vars

(***************************************************************************)
(* Batch search: POST /search                                              *)
(***************************************************************************)
MaxSearchRetailers == 2
MaxSearchCities == 2

max_api_calls == 200
LAST_RESULTS_TTL_SECONDS == 1800

\* a place as places_nearby returns it, with the address its details carry
Place(place_id, name, vicinity, faddr) ==
    [place_id |-> place_id, name |-> name, vicinity |-> vicinity, formatted_address |-> faddr]

PlaceGap == Place("p1", "Gap", "1 Main St", "1 Main St, Troy, MI 48084, USA")
PlaceOutlet == Place("p2", "Gap Outlet", "7 Oak St", "7 Oak St, Boston, MA 02108, USA")
PlaceBoth == Place("p3", "Polo Gap", "3 Elm St", "3 Elm St, Troy, MI 48083, USA")
PlaceNoId == Place("", "Polo", "5 Elm St", "5 Elm St, Boston, MA 02108, USA")
PlaceMacys == Place("p4", "Macy's Gap", "9 Mall Rd", "9 Mall Rd, Troy, MI 48084, USA")

\* what the Google client answers to one search: ok is false when there is
\* no client, the location does not geocode or a call raises; details is
\* false when the details call raises
SearchReplies ==
    { [ok |-> FALSE, places |-> <<>>, details |-> FALSE],
      [ok |-> TRUE, places |-> <<PlaceGap, PlaceBoth>>, details |-> TRUE],
      [ok |-> TRUE, places |-> <<PlaceBoth, PlaceOutlet, PlaceMacys>>, details |-> TRUE],
      [ok |-> TRUE, places |-> <<PlaceNoId, PlaceNoId, PlaceGap>>, details |-> FALSE] }

\* the store_info of one place; formatted_address is set only when the
\* place has an id and its details call answers
store_info(place, details) ==
    [name |-> place.name, address |-> place.vicinity, place_id |-> place.place_id,
     has_formatted |-> place.place_id # "" /\ details,
     formatted_address |-> place.formatted_address]

\* A variant in which a details call that raises ends the whole search
search_retailer_stores_strict(retailer, reply) ==
    IF ~reply.ok \/ ~reply.details THEN <<>>
    ELSE LET kept == SelectSeq(reply.places, LAMBDA pl : is_official_brand_store(pl.name, retailer))
         IN  [i \in 1..Len(kept) |-> store_info(kept[i], reply.details)]

search_retailer_stores(retailer, reply) ==
    IF ~reply.ok THEN <<>>
    ELSE LET kept == SelectSeq(reply.places, LAMBDA pl : is_official_brand_store(pl.name, retailer))
         IN  [i \in 1..Len(kept) |-> store_info(kept[i], reply.details)]

\* the calls one search makes to the Google client: the geocode; when the
\* location geocodes, the nearby search; then one details call for every
\* kept store that has a place id
gmaps_calls_of(reply, stores) ==
    IF ~reply.ok THEN 1
    ELSE 2 + Len(SelectSeq(stores, LAMBDA st : st.place_id # ""))

\* the clean_store of one store found for retailer
clean_store(store, retailer) ==
    LET formatted_addr == IF store.has_formatted THEN store.formatted_address ELSE store.address
        parsed == _parse_address_components(formatted_addr)
    IN  [name |-> store.name, address |-> parsed[1], formatted_address |-> formatted_addr,
         city |-> parsed[2], state |-> parsed[3], zip_code |-> parsed[4],
         place_id |-> store.place_id, retailer_name |-> retailer]

\* all_stores.append(clean_store), retailer_stores.append(clean_store),
\* seen_place_ids.add(place_id)
store_added(acc, cleaned) ==
    [acc EXCEPT !.all_stores = Append(@, cleaned),
                !.retailer_stores = Append(@, cleaned),
                !.seen_place_ids = @ \cup {cleaned.place_id}]

\* A variant that tells stores apart by place id and retailer searched
add_stores_per_retailer(acc, stores, retailer, location) ==
    LET RECURSIVE go(_, _)
        go(a, rest) ==
            IF rest = <<>> THEN a
            ELSE IF \E i \in 1..Len(a.all_stores) :
                        /\ a.all_stores[i].place_id = Head(rest).place_id
                        /\ a.all_stores[i].retailer_name = retailer
            THEN go([a EXCEPT !.skipped = @ \cup {[place_id |-> Head(rest).place_id, retailer |-> retailer,
                                                    location |-> location]}],
                    Tail(rest))
            ELSE go(store_added(a, clean_store(Head(rest), retailer)), Tail(rest))
    IN  go(acc, stores)

\* the loop over the stores of one search: a store whose place_id was seen is
\* left out, any other is appended and its place_id recorded
RECURSIVE add_stores(_, _, _, _)
add_stores(acc, stores, retailer, location) ==
    IF stores = <<>> THEN acc
    ELSE IF Head(stores).place_id \in acc.seen_place_ids
    THEN add_stores([acc EXCEPT !.skipped = @ \cup {[place_id |-> Head(stores).place_id,
                                                      retailer |-> retailer,
                                                      location |-> location]}],
                    Tail(stores), retailer, location)
    ELSE add_stores(store_added(acc, clean_store(Head(stores), retailer)),
                    Tail(stores), retailer, location)

\* (retailer_name, formatted_address) of a before that of b
store_key_lt(a, b) ==
    \/ str_lt(a.retailer_name, b.retailer_name)
    \/ a.retailer_name = b.retailer_name /\ str_lt(a.formatted_address, b.formatted_address)

RECURSIVE insert_store(_, _)
insert_store(sorted, store) ==
    IF sorted = <<>> THEN <<store>>
    ELSE IF store_key_lt(store, Head(sorted)) THEN <<store>> \o sorted
    ELSE <<Head(sorted)>> \o insert_store(Tail(sorted), store)

\* all_stores.sort(key=(retailer_name, formatted_address)): stable
RECURSIVE sort_stores(_, _)
sort_stores(sorted, stores) ==
    IF stores = <<>> THEN sorted
    ELSE sort_stores(insert_store(sorted, Head(stores)), Tail(stores))

\* v.get('ts', now) of a cache entry
entry_ts(v, t) == IF "ts" \in DOMAIN v THEN v.ts ELSE t

\* A variant that keeps every entry
cleanup_cache_never(cache, t) == cache

\* _cleanup_cache: drop the entries whose ts is older than the TTL
_cleanup_cache(cache, t) ==
    VDict(SelectSeq(cache.items,
                    LAMBDA e : ~(t - entry_ts(e.v, t) > LAST_RESULTS_TTL_SECONDS)))

\* str(uuid.uuid4()): a key no earlier call returned, n keys drawn so far
uuid4(n) == "u" \o int_str(n + 1)

\* the non-empty trimmed parts of retailer_input
names_of(form_retailer_name) ==
    LET parts == str_split_sep(str_strip(form_retailer_name), ",")
    IN  SelectSeq([i \in 1..Len(parts) |-> str_strip(parts[i])], LAMBDA n : n # "")

RetailerInputs == {"", " , ", "Gap", "Gap, Polo", "Polo ,Gap"}
SearchCities == {"Troy, MI", "Boston, MA"}
CityLists == SeqsUpTo(SearchCities, MaxSearchCities) \ {<<>>}

\* the built-in locations of a search without selected cities
default_search_locations ==
    << "Birmingham, AL", "Montgomery, AL", "Mobile, AL", "Huntsville, AL", "Anchorage, AK",
       "Fairbanks, AK", "Juneau, AK", "Phoenix, AZ", "Tucson, AZ", "Mesa, AZ", "Chandler, AZ",
       "Little Rock, AR", "Fort Smith, AR", "Fayetteville, AR", "Los Angeles, CA",
       "San Diego, CA", "San Jose, CA", "San Francisco, CA", "Fresno, CA", "Sacramento, CA",
       "Long Beach, CA", "Oakland, CA", "Bakersfield, CA", "Anaheim, CA", "Santa Ana, CA",
       "Riverside, CA", "Denver, CO", "Colorado Springs, CO", "Aurora, CO", "Fort Collins, CO",
       "Bridgeport, CT", "New Haven, CT", "Hartford, CT", "Stamford, CT", "Wilmington, DE",
       "Dover, DE", "Jacksonville, FL", "Miami, FL", "Tampa, FL", "Orlando, FL",
       "St. Petersburg, FL", "Hialeah, FL", "Tallahassee, FL", "Fort Lauderdale, FL",
       "Port St. Lucie, FL", "Cape Coral, FL", "Pembroke Pines, FL", "Hollywood, FL",
       "Atlanta, GA", "Augusta, GA", "Columbus, GA", "Savannah, GA", "Athens, GA",
       "Sandy Springs, GA", "Roswell, GA", "Macon, GA", "Honolulu, HI", "Pearl City, HI",
       "Hilo, HI", "Boise, ID", "Nampa, ID", "Meridian, ID", "Idaho Falls, ID", "Chicago, IL",
       "Aurora, IL", "Rockford, IL", "Joliet, IL", "Naperville, IL", "Springfield, IL",
       "Peoria, IL", "Elgin, IL", "Indianapolis, IN", "Fort Wayne, IN", "Evansville, IN",
       "South Bend, IN", "Carmel, IN", "Fishers, IN", "Bloomington, IN", "Hammond, IN",
       "Des Moines, IA", "Cedar Rapids, IA", "Davenport, IA", "Sioux City, IA", "Wichita, KS",
       "Overland Park, KS", "Kansas City, KS", "Topeka, KS", "Louisville, KY", "Lexington, KY",
       "Bowling Green, KY", "Owensboro, KY", "New Orleans, LA", "Baton Rouge, LA",
       "Shreveport, LA", "Lafayette, LA", "Lake Charles, LA", "Kenner, LA", "Bossier City, LA",
       "Monroe, LA", "Portland, ME", "Lewiston, ME", "Bangor, ME", "South Portland, ME",
       "Baltimore, MD", "Frederick, MD", "Rockville, MD", "Gaithersburg, MD", "Bowie, MD",
       "Hagerstown, MD", "Annapolis, MD", "Boston, MA", "Worcester, MA", "Springfield, MA",
       "Cambridge, MA", "Lowell, MA", "Brockton, MA", "New Bedford, MA", "Quincy, MA",
       "Detroit, MI", "Grand Rapids, MI", "Warren, MI", "Sterling Heights, MI", "Lansing, MI",
       "Ann Arbor, MI", "Flint, MI", "Dearborn, MI", "Minneapolis, MN", "Saint Paul, MN",
       "Rochester, MN", "Duluth, MN", "Bloomington, MN", "Brooklyn Park, MN", "Plymouth, MN",
       "St. Cloud, MN", "Jackson, MS", "Gulfport, MS", "Southaven, MS", "Hattiesburg, MS",
       "Kansas City, MO", "Saint Louis, MO", "Springfield, MO", "Independence, MO",
       "Columbia, MO", "Lee's Summit, MO", "O'Fallon, MO", "St. Joseph, MO", "Billings, MT",
       "Missoula, MT", "Great Falls, MT", "Bozeman, MT", "Omaha, NE", "Lincoln, NE",
       "Bellevue, NE", "Grand Island, NE", "Las Vegas, NV", "Henderson, NV", "Reno, NV",
       "North Las Vegas, NV", "Sparks, NV", "Carson City, NV", "Manchester, NH", "Nashua, NH",
       "Concord, NH", "Derry, NH", "Newark, NJ", "Jersey City, NJ", "Paterson, NJ",
       "Elizabeth, NJ", "Edison, NJ", "Woodbridge, NJ", "Lakewood, NJ", "Toms River, NJ",
       "Albuquerque, NM", "Las Cruces, NM", "Rio Rancho, NM", "Santa Fe, NM", "New York, NY",
       "Buffalo, NY", "Rochester, NY", "Yonkers, NY", "Syracuse, NY", "Albany, NY",
       "New Rochelle, NY", "Mount Vernon, NY", "Schenectady, NY", "Utica, NY",
       "White Plains, NY", "Hempstead, NY", "Charlotte, NC", "Raleigh, NC", "Greensboro, NC",
       "Durham, NC", "Winston-Salem, NC", "Fayetteville, NC", "Cary, NC", "Wilmington, NC",
       "Fargo, ND", "Bismarck, ND", "Grand Forks, ND", "Minot, ND", "Columbus, OH",
       "Cleveland, OH", "Cincinnati, OH", "Toledo, OH", "Akron, OH", "Dayton, OH", "Parma, OH",
       "Canton, OH", "Youngstown, OH", "Lorain, OH", "Hamilton, OH", "Springfield, OH",
       "Oklahoma City, OK", "Tulsa, OK", "Norman, OK", "Broken Arrow, OK", "Portland, OR",
       "Salem, OR", "Eugene, OR", "Gresham, OR", "Hillsboro, OR", "Bend, OR", "Medford, OR",
       "Springfield, OR", "Philadelphia, PA", "Pittsburgh, PA", "Allentown, PA", "Erie, PA",
       "Reading, PA", "Scranton, PA", "Bethlehem, PA", "Lancaster, PA", "Harrisburg, PA",
       "Altoona, PA", "York, PA", "State College, PA", "Providence, RI", "Warwick, RI",
       "Cranston, RI", "Pawtucket, RI", "Columbia, SC", "Charleston, SC",
       "North Charleston, SC", "Mount Pleasant, SC", "Rock Hill, SC", "Greenville, SC",
       "Summerville, SC", "Sumter, SC", "Sioux Falls, SD", "Rapid City, SD", "Aberdeen, SD",
       "Brookings, SD", "Nashville, TN", "Memphis, TN", "Knoxville, TN", "Chattanooga, TN",
       "Clarksville, TN", "Murfreesboro, TN", "Franklin, TN", "Jackson, TN", "Houston, TX",
       "San Antonio, TX", "Dallas, TX", "Austin, TX", "Fort Worth, TX", "El Paso, TX",
       "Arlington, TX", "Corpus Christi, TX", "Plano, TX", "Lubbock, TX", "Laredo, TX",
       "Garland, TX", "Irving, TX", "Amarillo, TX", "Grand Prairie, TX", "Brownsville, TX",
       "Pasadena, TX", "Mesquite, TX", "McKinney, TX", "McAllen, TX", "Salt Lake City, UT",
       "West Valley City, UT", "Provo, UT", "West Jordan, UT", "Orem, UT", "Sandy, UT",
       "Ogden, UT", "St. George, UT", "Burlington, VT", "Essex, VT", "South Burlington, VT",
       "Colchester, VT", "Virginia Beach, VA", "Norfolk, VA", "Chesapeake, VA", "Richmond, VA",
       "Newport News, VA", "Alexandria, VA", "Hampton, VA", "Portsmouth, VA", "Suffolk, VA",
       "Roanoke, VA", "Lynchburg, VA", "Harrisonburg, VA", "Seattle, WA", "Spokane, WA",
       "Tacoma, WA", "Vancouver, WA", "Bellevue, WA", "Everett, WA", "Kent, WA", "Renton, WA",
       "Yakima, WA", "Federal Way, WA", "Spokane Valley, WA", "Bellingham, WA",
       "Charleston, WV", "Huntington, WV", "Parkersburg, WV", "Morgantown, WV",
       "Milwaukee, WI", "Madison, WI", "Green Bay, WI", "Kenosha, WI", "Racine, WI",
       "Appleton, WI", "Waukesha, WI", "Oshkosh, WI", "Cheyenne, WY", "Casper, WY",
       "Laramie, WY", "Gillette, WY", "Washington, DC" >>

SearchInit ==
    /\ BrandIdle
    /\ AddrIdle
    /\ RtIdle
    /\ AnIdle
    /\ SearchIdle
    /\ db_file = NoFile
    /\ markets_file = NoFile
    /\ now = 0
    /\ resp = NoResp

search_rest == <<brand_vars, addr_vars, rt_vars, an_vars, db_file, markets_file, now>>

\* POST /search up to the loop; selected_cities is empty when the request
\* selects none
search_stores_begin(form_retailer_name, selected_cities) ==
    /\ search_pc # "loop"
    /\ Len(names_of(form_retailer_name)) <= MaxSearchRetailers
    /\ IF names_of(form_retailer_name) = <<>>
       THEN /\ resp' = Resp("search", FALSE, VStr(form_retailer_name), 0)
            /\ UNCHANGED <<search_vars>>
       ELSE /\ search_pc' = "loop"
            /\ retailer_input' = str_strip(form_retailer_name)
            /\ retailer_names' = names_of(form_retailer_name)
            /\ search_locations' = IF selected_cities # <<>> THEN selected_cities
                                   ELSE default_search_locations
            /\ ri' = 1
            /\ li' = 1
            /\ api_calls_made' = 0
            /\ gmaps_calls' = 0
            /\ last_search' = NoSearch
            /\ all_stores' = <<>>
            /\ retailer_stores' = <<>>
            /\ retailer_results' = VDict(<<>>)
            /\ seen_place_ids' = {}
            /\ skipped' = {}
            /\ resp' = Resp("search_started", TRUE, VStr(form_retailer_name), 0)
            /\ UNCHANGED <<LAST_RESULTS_CACHE, uuids, last_results_key, last_search_terms>>
    /\ UNCHANGED search_rest

\* A variant of the budget test that lets one more search through
budget_reached_late(calls) == calls > max_api_calls

\* the test that breaks the loop over the locations
budget_reached(calls) == calls >= max_api_calls

\* one pass of the inner loop: the budget test, then one search and its
\* stores; when the loop over the locations ends, by the break or after the
\* last location, the stores of the retailer go into retailer_results
\* the state after one search whose stores have gone through the loop over
\* the stores (acc); last: the location was the last of the list
search_made(reply, stores, acc, last) ==
    /\ api_calls_made' = api_calls_made + 1
    /\ gmaps_calls' = gmaps_calls + gmaps_calls_of(reply, stores)
    /\ last_search' = [made |-> TRUE, ok |-> reply.ok, places |-> reply.places,
                       details |-> reply.details]
    /\ all_stores' = acc.all_stores
    /\ seen_place_ids' = acc.seen_place_ids
    /\ skipped' = acc.skipped
    /\ retailer_stores' = IF last THEN <<>> ELSE acc.retailer_stores
    /\ retailer_results' = IF last
                           THEN dict_set(retailer_results, retailer_names[ri], acc.retailer_stores)
                           ELSE retailer_results
    /\ ri' = IF last THEN ri + 1 ELSE ri
    /\ li' = IF last THEN 1 ELSE li + 1

\* one search: its stores go through the loop over the stores
search_found(reply, stores) ==
    search_made(reply, stores,
                add_stores([all_stores |-> all_stores, retailer_stores |-> retailer_stores,
                            seen_place_ids |-> seen_place_ids, skipped |-> skipped],
                           stores, retailer_names[ri], search_locations[li]),
                li = Len(search_locations))

search_stores_step(reply) ==
    /\ search_pc = "loop"
    /\ ri <= Len(retailer_names)
    /\ IF budget_reached(api_calls_made)
       THEN /\ ri' = ri + 1
            /\ li' = 1
            /\ last_search' = NoSearch
            /\ retailer_results' = dict_set(retailer_results, retailer_names[ri], retailer_stores)
            /\ retailer_stores' = <<>>
            /\ UNCHANGED <<api_calls_made, gmaps_calls, all_stores, seen_place_ids, skipped>>
       ELSE search_found(reply, search_retailer_stores(retailer_names[ri], reply))
    /\ UNCHANGED <<search_pc, retailer_input, retailer_names, search_locations,
                   LAST_RESULTS_CACHE, uuids, last_results_key, last_search_terms, resp,
                   search_rest>>

\* after the loop: nothing found redirects; otherwise the stores are sorted
\* and cached under a new key, which the session takes
search_stores_end ==
    /\ search_pc = "loop"
    /\ ri > Len(retailer_names)
    /\ search_pc' = "done"
    /\ IF all_stores = <<>>
       THEN /\ resp' = Resp("search", FALSE, VNone, 0)
            /\ UNCHANGED <<all_stores, LAST_RESULTS_CACHE, uuids, last_results_key,
                           last_search_terms>>
       ELSE LET swept == _cleanup_cache(LAST_RESULTS_CACHE, now)
                cache == IF last_results_key # VNone /\ dict_has(swept, last_results_key.s)
                         THEN dict_del(swept, last_results_key.s) ELSE swept
                cache_key == uuid4(uuids)
                sorted == sort_stores(<<>>, all_stores)
            IN  /\ all_stores' = sorted
                /\ LAST_RESULTS_CACHE' =
                       dict_set(cache, cache_key,
                                [retailer_names |-> retailer_names,
                                 retailer_results |-> retailer_results,
                                 total_found |-> Len(sorted),
                                 stores |-> sorted, api_calls_made |-> api_calls_made, ts |-> now])
                /\ uuids' = uuids + 1
                /\ last_results_key' = VStr(cache_key)
                /\ last_search_terms' = VStr(retailer_input)
                /\ resp' = Resp("search", TRUE, VNone, Len(sorted))
    /\ UNCHANGED <<retailer_input, retailer_names, search_locations, ri, li, api_calls_made, gmaps_calls,
                   last_search, retailer_stores, retailer_results, seen_place_ids,
                   skipped, search_rest>>

SearchNext ==
    \/ /\ search_pc = "idle"
       /\ \E form_retailer_name \in RetailerInputs, selected_cities \in CityLists :
              search_stores_begin(form_retailer_name, selected_cities)
    \/ \E reply \in SearchReplies : search_stores_step(reply)
    \/ search_stores_end

SpecSearch == SearchInit /\ [][SearchNext]_vars

\* C10: at every point of a batch search and in the result it caches, no two
\* stores carry the same place id, and a store the loop left out is one whose
\* place id the result already holds.
C10_NoDuplicatePlace ==
    /\ \A i, j \in 1..Len(all_stores) :
           all_stores[i].place_id = all_stores[j].place_id => i = j
    /\ \A sk \in skipped : \E i \in 1..Len(all_stores) : all_stores[i].place_id = sk.place_id
    /\ \A e \in 1..Len(LAST_RESULTS_CACHE.items) :
           \A i, j \in 1..Len(LAST_RESULTS_CACHE.items[e].v.stores) :
               LAST_RESULTS_CACHE.items[e].v.stores[i].place_id
                   = LAST_RESULTS_CACHE.items[e].v.stores[j].place_id => i = j

\* A search of two retailers in two cities ended; one place came back for
\* both retailers and another for one retailer in both cities, and each is in
\* the result once
C10_Witness ==
    /\ search_pc = "done" /\ resp.success
    /\ Len(retailer_names) = 2 /\ Len(search_locations) = 2
    /\ search_locations[1] # search_locations[2]
    /\ \E sk \in skipped :
           \E i \in 1..Len(all_stores) :
               all_stores[i].place_id = sk.place_id /\ all_stores[i].retailer_name # sk.retailer
    /\ \E sk \in skipped :
           /\ sk.place_id # ""
           /\ sk.location = search_locations[2]
           /\ \E i \in 1..Len(all_stores) :
                  /\ all_stores[i].place_id = sk.place_id
                  /\ all_stores[i].retailer_name = sk.retailer
                  /\ sk.retailer = retailer_names[1]
    /\ Len(all_stores) >= 3


\* the pair after (r, l) in the order of the two loops
C12_NextPair(r, l) ==
    IF l = Len(search_locations) THEN <<r + 1, 1>> ELSE <<r, l + 1>>

\* the places of an answered search that carry the brand searched for
C12_Found(retailer, search) ==
    IF ~search.ok THEN <<>>
    ELSE SelectSeq(search.places, LAMBDA pl : is_official_brand_store(pl.name, retailer))

C12_IsPrefix(a, b) == Len(a) <= Len(b) /\ SubSeq(b, 1, Len(a)) = a

\* a pass of the loop that searched: the loop goes on with the next pair
\* whatever the answer was, keeps the stores it had, and holds every place
\* the search found
C12_SearchStep ==
    (search_pc = "loop" /\ api_calls_made' = api_calls_made + 1) =>
        /\ search_pc' = "loop"
        /\ <<ri', li'>> = C12_NextPair(ri, li)
        /\ C12_IsPrefix(all_stores, all_stores')
        /\ LET found == C12_Found(retailer_names[ri], last_search')
           IN  \A k \in 1..Len(found) :
                   \E i \in 1..Len(all_stores') : all_stores'[i].place_id = found[k].place_id

\* the result the caller receives holds every store the loop collected
C12_ResultComplete ==
    (search_pc = "done" /\ resp.success) =>
        /\ last_results_key # VNone
        /\ dict_has(LAST_RESULTS_CACHE, last_results_key.s)
        /\ LET stores == dict_get(LAST_RESULTS_CACHE, last_results_key.s, VNone).stores
           IN  /\ Len(stores) = Len(all_stores)
               /\ \A p \in seen_place_ids : \E i \in 1..Len(stores) : stores[i].place_id = p

\* the loop ends only after the last pair (no budget is reached here)
C12_AllPairsSearched ==
    search_pc = "done" => api_calls_made = Len(retailer_names) * Len(search_locations)

\* C12: in a batch search a geocode miss or an exception for one pair, or a
\* details error for one place, never aborts the batch: the remaining pairs
\* are still searched, and every store a succeeding search found is in the
\* result the caller receives.
C12_FailuresNotFatal ==
    /\ [][C12_SearchStep]_vars
    /\ [](C12_ResultComplete /\ C12_AllPairsSearched)

\* Gap was searched in two cities: the first search failed (one call, the
\* geocode), the second found a Gap store whose details call raised, and the
\* result holds that store under the address of the nearby search
C12_Witness ==
    /\ search_pc = "done" /\ resp.success
    /\ retailer_names = <<"Gap">> /\ Len(search_locations) = 2
    /\ api_calls_made = 2
    /\ last_search.ok /\ ~last_search.details
    /\ gmaps_calls = 1 + gmaps_calls_of(last_search, search_retailer_stores("Gap", last_search))
    /\ \E i \in 1..Len(all_stores) :
           /\ all_stores[i].place_id = PlaceGap.place_id
           /\ all_stores[i].formatted_address = PlaceGap.vicinity

(***************************************************************************)
(* Batch search over the built-in locations: the call budget               *)
(***************************************************************************)
ReplyMiss == [ok |-> FALSE, places |-> <<>>, details |-> FALSE]
ReplyNone == [ok |-> TRUE, places |-> <<>>, details |-> TRUE]
ReplyGap == [ok |-> TRUE, places |-> <<PlaceGap>>, details |-> TRUE]
ReplyOutlet == [ok |-> TRUE, places |-> <<PlaceOutlet>>, details |-> TRUE]

\* what the Google client may answer near a location: a Gap store stands
\* near the first built-in location and a Gap Outlet near the 200th and the
\* 201st; a search there finds it or fails to geocode. Elsewhere the
\* location geocodes and no place comes back.
BudgetReplies(location) ==
    IF location = "Birmingham, AL" THEN {ReplyMiss, ReplyGap}
    ELSE IF location \in {"Minot, ND", "Columbus, OH"} THEN {ReplyMiss, ReplyOutlet}
    ELSE {ReplyNone}

BudgetInputs == {"Gap", "Gap, Polo", "Polo, Gap"}

BudgetNext ==
    \/ /\ search_pc = "idle"
       /\ \E form_retailer_name \in BudgetInputs : search_stores_begin(form_retailer_name, <<>>)
    \/ /\ search_pc = "loop" /\ ri <= Len(retailer_names)
       /\ \E reply \in BudgetReplies(search_locations[li]) : search_stores_step(reply)
    \/ search_stores_end

SpecBudget == SearchInit /\ [][BudgetNext]_vars

\* a request, once received, is handled to its end
SpecBudgetLive == SpecBudget /\ WF_vars(BudgetNext)

\* C11: during one batch search the calls made to the Google client
\* (geocode, nearby search and place details together) never exceed
\* max_api_calls.
C11_CallsWithinBudget == gmaps_calls <= max_api_calls

\* C11, the counter the loop keeps: the searches of one batch never exceed
\* max_api_calls, and every search is at least one call to the client.
C11_SearchesWithinBudget ==
    /\ api_calls_made <= max_api_calls
    /\ gmaps_calls >= api_calls_made

C20_StoreSet(stores) == {stores[i] : i \in 1..Len(stores)}

\* once the counter has reached the budget, a step of the request searches
\* nothing and leaves the stores collected as they are
C20_NothingSearched ==
    (search_pc = "loop" /\ api_calls_made >= max_api_calls) =>
        /\ api_calls_made' = api_calls_made
        /\ gmaps_calls' = gmaps_calls
        /\ ~last_search'.made
        /\ C20_StoreSet(all_stores') = C20_StoreSet(all_stores)

\* the result entries of every requested retailer, in the cached result
C20_EntryForEach(entry) ==
    /\ C20_StoreSet(entry.stores) = C20_StoreSet(all_stores)
    /\ \A r \in 1..Len(retailer_names) : dict_has(entry.retailer_results, retailer_names[r])

C20_Returned ==
    /\ resp.success
    /\ last_results_key # VNone
    /\ dict_has(LAST_RESULTS_CACHE, last_results_key.s)
    /\ C20_EntryForEach(dict_get(LAST_RESULTS_CACHE, last_results_key.s, VNone))

\* C20 as stated: a batch that exhausted the budget always returns a result
\* with an entry for every requested retailer.
C20_ExhaustedAlwaysReturns ==
    (search_pc = "done" /\ api_calls_made >= max_api_calls) => C20_Returned

\* C20: once the call counter reaches the budget no further location is
\* searched, for this retailer or a later one, and the batch completes; when
\* it collected at least one store it returns the stores collected, with a
\* result entry for every requested retailer, and when it collected none it
\* ends with the no-stores redirect and returns no result.
C20_BudgetExhaustion ==
    /\ [][C20_NothingSearched]_vars
    /\ []((search_pc = "done" /\ api_calls_made >= max_api_calls) =>
             IF all_stores # <<>> THEN C20_Returned
             ELSE ~resp.success /\ last_results_key = VNone)
    /\ ((search_pc = "loop" /\ api_calls_made >= max_api_calls) ~> search_pc = "done")

\* Two retailers were searched over the built-in locations; the first used
\* the whole budget within its first 200 locations and found the stores
\* near the first and the 200th, the second was never searched and has an
\* empty entry
C20_Witness ==
    /\ search_pc = "done" /\ C20_Returned
    /\ api_calls_made = max_api_calls
    /\ Len(search_locations) > max_api_calls
    /\ retailer_names = <<"Gap", "Polo">>
    /\ LET entry == dict_get(LAST_RESULTS_CACHE, last_results_key.s, VNone)
       IN  /\ Len(dict_get(entry.retailer_results, "Gap", <<>>)) = 2
           /\ dict_get(entry.retailer_results, "Polo", <<"none">>) = <<>>
           /\ Len(entry.stores) = 2


(***************************************************************************)
(* The result cache over time: searches and results-CSV uploads            *)
(***************************************************************************)
MaxCacheWrites == 3
MaxTicks == 3
TickSeconds == 1000

(***************************************************************************)
(* pandas.read_csv: a CSV file is a sequence of rows, each row a sequence   *)
(* of KV(header, cell text) in column order; every row of a file has the    *)
(* same headers. A parsed row is a dict from header to typed cell value.    *)
(***************************************************************************)
\* text of the form digits "." digits
IsDecimal(s) ==
    \E i \in 2..(Len(s) - 1) :
        /\ CharAt(s, i) = "."
        /\ AllDigits(SubSeq(s, 1, i - 1))
        /\ AllDigits(SubSeq(s, i + 1, Len(s)))

\* the text of column h in row r
csv_cell(r, h) == r[CHOOSE i \in 1..Len(r) : r[i].k = h].v

\* the dtype pandas infers for column h: object for a column named in
\* dtype=str or holding any other text, int64 for digits in every row,
\* float64 for numbers with a decimal point or a missing cell
column_dtype(rows, h, str_headers) ==
    LET cells == {csv_cell(rows[i], h) : i \in 1..Len(rows)}
        given == cells \ {""}
    IN  IF h \in str_headers THEN "str"
        ELSE IF given = {} THEN "float"
        ELSE IF \A c \in given : AllDigits(c) THEN (IF "" \in cells THEN "float" ELSE "int")
        ELSE IF \A c \in given : AllDigits(c) \/ IsDecimal(c) THEN "float"
        ELSE "str"

\* the value of one cell under its column's dtype; a missing cell is NaN
pd_value(text, dtype) ==
    IF text = "" THEN VFloat("nan")
    ELSE IF dtype = "int" THEN VInt(str_int(text))
    ELSE IF dtype = "float"
         THEN VFloat(IF AllDigits(text) THEN int_str(str_int(text)) \o ".0" ELSE text)
    ELSE VStr(text)

\* pd.read_csv(file, dtype={h: str for h in str_headers}), as the rows that
\* df.iterrows() yields
read_csv(rows, str_headers) ==
    [i \in 1..Len(rows) |->
        VDict([j \in 1..Len(rows[i]) |->
                  KV(rows[i][j].k,
                     pd_value(rows[i][j].v,
                              column_dtype(rows, rows[i][j].k, str_headers)))])]

\* str(v) of a cell value
py_str(v) ==
    CASE v.t = "str" -> v.s
      [] v.t = "int" -> int_str(v.n)
      [] v.t = "float" -> v.repr

\* float(v) raises ValueError on text that is not a number
float_raises(v) == v.t = "str" /\ ~(v.s # "" /\ (AllDigits(v.s) \/ IsDecimal(v.s)))

\* float(v) of a cell value
py_float(v) ==
    CASE v.t = "float" -> v
      [] v.t = "int" -> VFloat(int_str(v.n) \o ".0")
      [] v.t = "str" -> VFloat(IF AllDigits(v.s) THEN int_str(str_int(v.s)) \o ".0" ELSE v.s)

\* one row of a results CSV with the columns Store Name, Address, City,
\* State, Zip and Status
ResultsRow(store_name, address, city, state, zip, status) ==
    << KV("Store Name", store_name), KV("Address", address), KV("City", city),
       KV("State", state), KV("Zip", zip), KV("Status", status) >>

ResultsGap == ResultsRow("Gap", "1 Main St, Troy, MI 48084", "Troy", "MI", "48084", "OPERATIONAL")
ResultsPolo == ResultsRow("Polo", "6 Elm St, Boston, MA 02108", "Boston", "MA", "02108",
                          "OPERATIONAL")
ResultsCsvs == {<<ResultsGap>>, <<ResultsGap, ResultsPolo>>}

\* row.get('Lat', row.get('Latitude', 0)) and the same for the longitude
row_lat(row) == dict_get(row, "Lat", dict_get(row, "Latitude", VInt(0)))
row_lng(row) == dict_get(row, "Long", dict_get(row, "Longitude", VInt(0)))

\* the store the upload makes of parsed row k (counted from 0)
uploaded_store(row, k, search_terms) ==
    [name |-> py_str(dict_get(row, "Store Name", VStr(""))),
     address |-> py_str(dict_get(row, "Address", VStr(""))),
     phone_number |-> py_str(dict_get(row, "Phone", VStr(""))),
     rating |-> dict_get(row, "Rating", VStr("")),
     website |-> py_str(dict_get(row, "Website", VStr(""))),
     place_id |-> "uploaded_" \o int_str(k),
     latitude |-> IF truthy(row_lat(row)) THEN py_float(row_lat(row)) ELSE VInt(0),
     longitude |-> IF truthy(row_lng(row)) THEN py_float(row_lng(row)) ELSE VInt(0),
     formatted_address |-> py_str(dict_get(row, "Address", VStr(""))),
     business_status |-> py_str(dict_get(row, "Status", VStr("OPERATIONAL"))),
     city |-> py_str(dict_get(row, "City", VStr(""))),
     state |-> py_str(dict_get(row, "State", VStr(""))),
     zip_code |-> py_str(dict_get(row, "Zip", VStr(""))),
     retailer_name |-> search_terms]

\* building the store of a row raises: float() of a coordinate that is text
upload_row_raises(row) ==
    \/ truthy(row_lat(row)) /\ float_raises(row_lat(row))
    \/ truthy(row_lng(row)) /\ float_raises(row_lng(row))

\* the entry the upload caches for the rows of the file
uploaded_entry(df, search_terms, t) ==
    [stores |-> [k \in 1..Len(df) |-> uploaded_store(df[k], k - 1, search_terms)],
     retailer_name |-> search_terms, total_found |-> Len(df), api_calls_made |-> 0,
     timestamp |-> t]

\* the request a response answers: the filename and the rows of the file
Upload(filename, rows) == [t |-> "upload", s |-> filename, rows |-> rows]

\* POST /upload-results-csv; filename is "" when no file was selected
upload_results_csv(filename, rows) ==
    /\ search_pc # "loop"
    /\ IF filename = "" \/ ~allowed_file(filename)
       THEN /\ resp' = Resp("upload_results", FALSE, Upload(filename, rows), 0)
            /\ UNCHANGED <<LAST_RESULTS_CACHE, uuids, last_results_key>>
       ELSE LET df == read_csv(rows, {"Zip", "Zip Code"})
            IN  IF \E k \in 1..Len(df) : upload_row_raises(df[k])
                THEN /\ resp' = Resp("upload_results", FALSE, Upload(filename, rows), 0)
                     /\ UNCHANGED <<LAST_RESULTS_CACHE, uuids, last_results_key>>
                ELSE /\ LAST_RESULTS_CACHE' =
                            dict_set(LAST_RESULTS_CACHE, uuid4(uuids),
                                     uploaded_entry(df, IF last_search_terms # VNone
                                                        THEN last_search_terms.s
                                                        ELSE "Uploaded Results", now))
                     /\ uuids' = uuids + 1
                     /\ last_results_key' = VStr(uuid4(uuids))
                     /\ resp' = Resp("upload_results", TRUE, Upload(filename, rows), Len(df))
    /\ UNCHANGED <<search_pc, retailer_input, retailer_names, search_locations, ri, li,
                   api_calls_made, gmaps_calls, last_search, all_stores, retailer_stores,
                   retailer_results, seen_place_ids, skipped, last_search_terms, search_rest>>

\* the clock advances
Tick ==
    /\ now < MaxTicks * TickSeconds
    /\ now' = now + TickSeconds
    /\ UNCHANGED <<brand_vars, addr_vars, rt_vars, an_vars, search_vars, db_file,
                   markets_file, resp>>

\* the next request comes from a browser that holds no session cookie
new_session ==
    /\ search_pc # "loop"
    /\ last_results_key # VNone
    /\ last_results_key' = VNone
    /\ last_search_terms' = VNone
    /\ resp' = NoResp
    /\ UNCHANGED <<search_pc, retailer_input, retailer_names, search_locations, ri, li,
                   api_calls_made, gmaps_calls, last_search, all_stores, retailer_stores,
                   retailer_results, seen_place_ids, skipped, LAST_RESULTS_CACHE, uuids,
                   search_rest>>

CacheNext ==
    \/ /\ uuids < MaxCacheWrites
       /\ \E form_retailer_name \in {"", "Gap"} :
              search_stores_begin(form_retailer_name, <<"Troy, MI">>)
    \/ \E reply \in {ReplyMiss, ReplyGap} : search_stores_step(reply)
    \/ search_stores_end
    \/ /\ uuids < MaxCacheWrites
       /\ \E filename \in {"", "stores.txt", "stores.csv"}, rows \in ResultsCsvs :
              upload_results_csv(filename, rows)
    \/ Tick
    \/ new_session

SpecCache == SearchInit /\ [][CacheNext]_vars

\* the time a cache entry was written at
C15_WrittenAt(v) == IF "ts" \in DOMAIN v THEN v.ts ELSE v.timestamp

\* the step wrote an entry into the cache
C15_Wrote == uuids' = uuids + 1

C15_NoneExpired(cache, t) ==
    \A i \in 1..Len(cache.items) :
        t - C15_WrittenAt(cache.items[i].v) <= LAST_RESULTS_TTL_SECONDS

\* C15: after any operation that writes an entry into LAST_RESULTS_CACHE, a
\* batch search or a results-CSV upload, the cache holds no entry older than
\* LAST_RESULTS_TTL_SECONDS.
C15_SweptOnWrite == [][C15_Wrote => C15_NoneExpired(LAST_RESULTS_CACHE', now')]_vars

\* C15, what the sweep does reach: after a batch search has written its
\* entry, the cache holds no entry written by a batch search that is older
\* than LAST_RESULTS_TTL_SECONDS.
C15_SearchSweepsSearchEntries ==
    [][(C15_Wrote /\ resp'.op = "search") =>
          \A i \in 1..Len(LAST_RESULTS_CACHE'.items) :
              "ts" \in DOMAIN LAST_RESULTS_CACHE'.items[i].v =>
                  now' - LAST_RESULTS_CACHE'.items[i].v.ts <= LAST_RESULTS_TTL_SECONDS]_vars


(***************************************************************************)
(* Bulk upload of retailer CSV files: POST /bulk-upload-retailers          *)
(***************************************************************************)
\* one row of a retailer CSV with the columns Store Name, Address, City,
\* State and ZIP
BulkRow(store_name, address, city, state, zip) ==
    << KV("Store Name", store_name), KV("Address", address), KV("City", city),
       KV("State", state), KV("ZIP", zip) >>

\* float(row.get(h, 0)) if row.get(h) else 0
row_float(row, h) ==
    IF truthy(dict_get(row, h, VNone)) THEN py_float(dict_get(row, h, VInt(0))) ELSE VInt(0)

\* the store the upload makes of one parsed row
bulk_store(row, filename) ==
    VDict(<< KV("name", VStr(py_str(dict_get(row, "Store Name",
                                             dict_get(row, "Name", VStr("")))))),
             KV("address", VStr(py_str(dict_get(row, "Address", VStr(""))))),
             KV("city", VStr(py_str(dict_get(row, "City", VStr(""))))),
             KV("state", VStr(py_str(dict_get(row, "State", VStr(""))))),
             KV("zip_code", VStr(py_str(dict_get(row, "ZIP", dict_get(row, "Zip", VStr("")))))),
             KV("phone_number", VStr(py_str(dict_get(row, "Phone", VStr(""))))),
             KV("rating", row_float(row, "Rating")),
             KV("website", VStr(py_str(dict_get(row, "Website", VStr(""))))),
             KV("latitude", row_float(row, "Latitude")),
             KV("longitude", row_float(row, "Longitude")),
             KV("formatted_address", VStr(py_str(dict_get(row, "Address", VStr(""))))),
             KV("business_status", VStr("OPERATIONAL")),
             KV("retailer_name",
                VStr(str_title(str_replace(str_replace(filename, ".csv", ""), "_", " ")))) >>)

\* building the store of a row raises: float() of a rating or coordinate
\* that is text
bulk_row_raises(row) ==
    \E h \in {"Rating", "Latitude", "Longitude"} :
        truthy(dict_get(row, h, VNone)) /\ float_raises(dict_get(row, h, VNone))

\* the number of rows whose store is built before the loop ends or raises
bulk_rows_built(df) ==
    IF \E k \in 1..Len(df) : bulk_row_raises(df[k])
    THEN (CHOOSE k \in 1..Len(df) :
              bulk_row_raises(df[k]) /\ \A j \in 1..(k - 1) : ~bulk_row_raises(df[j])) - 1
    ELSE Len(df)

\* the local variable store after one uploaded file: the store of the last
\* row built, or what an earlier file of the request left when this file is
\* not read or no row of it is built
bulk_last_store(file, store) ==
    IF file.filename = "" \/ ~allowed_file(file.filename) THEN store
    ELSE LET df == read_csv(file.rows, {})
         IN  IF bulk_rows_built(df) = 0 THEN store
             ELSE bulk_store(df[bulk_rows_built(df)], file.filename)

\* the retailer collection with the entry of one file appended
bulk_entry_saved(f, stores, filename, t, last_store) ==
    _save_db(f, VList(Append(_load_db(f).items,
        VDict(<< KV("retailer_name", dict_get(last_store, "retailer_name", VNone)),
                 KV("stores", VList(active_stores_of(stores))),
                 KV("total_stores", VInt(Len(active_stores_of(stores)))),
                 KV("total_cities",
                    VInt(Cardinality(unique_cities_of(active_stores_of(stores))))),
                 KV("date_added", VStr(isoformat(t))),
                 KV("source", VStr("csv_upload")),
                 KV("filename", VStr(filename)),
                 KV("removed", VBool(FALSE)) >>))))

\* the file after one uploaded CSV: a file that is not allowed changes
\* nothing, and neither does a CSV with a row that raises or a first CSV
\* without rows (store is unbound); either error is caught
bulk_file_saved(f, file, t, store) ==
    IF file.filename = "" \/ ~allowed_file(file.filename) THEN f
    ELSE LET df == read_csv(file.rows, {})
         IN  IF bulk_rows_built(df) < Len(df) \/ bulk_last_store(file, store) = VNone THEN f
             ELSE bulk_entry_saved(f, [i \in 1..Len(df) |-> bulk_store(df[i], file.filename)],
                                   file.filename, t, bulk_last_store(file, store))

\* the file after the loop over the uploaded files
RECURSIVE bulk_files_saved(_, _, _, _)
bulk_files_saved(f, files, t, store) ==
    IF files = <<>> THEN f
    ELSE bulk_files_saved(bulk_file_saved(f, Head(files), t, store), Tail(files), t,
                          bulk_last_store(Head(files), store))

bulk_upload_retailers(files) ==
    /\ Len(_load_db(db_file).items) + Len(files) <= MaxRecords
    /\ IF files = <<>> \/ \A i \in 1..Len(files) : files[i].filename = ""
       THEN /\ resp' = Resp("bulk_upload", FALSE,
                            VList([i \in 1..Len(files) |->
                                      Upload(files[i].filename, files[i].rows)]), 0)
            /\ UNCHANGED db_file
       ELSE /\ db_file' = bulk_files_saved(db_file, files, now, VNone)
            /\ resp' = Resp("bulk_upload", TRUE,
                            VList([i \in 1..Len(files) |->
                                      Upload(files[i].filename, files[i].rows)]),
                            Len(files))
    /\ UNCHANGED <<now, db_rest>>

BulkOldNavy ==
    << BulkRow("Old Navy", "1 Main St, Troy, MI 48084", "Troy", "MI", "48084"),
       BulkRow("Old Navy", "6 Elm St, Boston, MA 02108", " ", "MA", "02108") >>

BulkFile(filename, rows) == [filename |-> filename, rows |-> rows]

BulkUploads ==
    { <<BulkFile("", <<>>)>>,
      <<BulkFile("old_navy.csv", BulkOldNavy)>>,
      <<BulkFile("old_navy.xlsx", BulkOldNavy)>>,
      <<BulkFile("empty.csv", <<>>)>>,
      <<BulkFile("old_navy.csv", BulkOldNavy), BulkFile("empty.csv", <<>>)>>,
      <<BulkFile("notes.csv.txt", BulkOldNavy), BulkFile("OLD_NAVY.CSV", BulkOldNavy)>> }

(***************************************************************************)
(* Requests with input errors                                              *)
(***************************************************************************)
MaxInputWrites == 1

InputRetailerNames == {"", " , ", "Gap"}
ResultsFilenames == {"stores.txt", "stores.CSV"}

\* each of the three stores (result cache, markets collection, retailer
\* collection) takes MaxInputWrites writes
InputNext ==
    \/ \E form_retailer_name \in InputRetailerNames :
          /\ names_of(form_retailer_name) # <<>> => uuids < MaxInputWrites
          /\ search_stores_begin(form_retailer_name, <<"Troy, MI">>)
    \/ \E reply \in {ReplyMiss, ReplyGap} : search_stores_step(reply)
    \/ search_stores_end
    \/ \E filename \in ResultsFilenames :
          /\ allowed_file(filename) => uuids < MaxInputWrites
          /\ upload_results_csv(filename, <<ResultsGap>>)
    \/ \E filename \in MarketsFilenames :
          /\ allowed_file(filename) => Len(_load_markets_db(markets_file).items) < MaxInputWrites
          /\ markets_post(filename, <<"Troy, MI">>, <<<<>>>>)
    \/ \E files \in BulkUploads :
          /\ Len(_load_db(db_file).items) + Len(files) <= MaxInputWrites + 1
          /\ bulk_upload_retailers(files)

SpecInput == SearchInit /\ [][InputNext]_vars

\* a retailer name field that holds commas and whitespace only
C17_Blank(name) == \A i \in 1..Len(name) : CharAt(name, i) = "," \/ IsSpace(CharAt(name, i))

\* a filename that ends in .csv, in either case
C17_IsCsv(filename) ==
    /\ Len(filename) >= 4
    /\ str_lower(SubSeq(filename, Len(filename) - 3, Len(filename))) = ".csv"

C17_Filename(record) == dict_get(record, "filename", VStr("")).s

\* the uploaded filenames of a bulk request that end in .csv
C17_CsvNames(names) == SelectSeq(names, LAMBDA n : C17_IsCsv(n.s))

\* what a bulk upload added to the retailer collection: no more records than
\* the request has .csv files, each from a .csv file, after the records the
\* collection had
C17_BulkAdded(before, after, csv_names) ==
    /\ Len(after) <= Len(before) + Len(csv_names)
    /\ SubSeq(after, 1, Len(before)) = before
    /\ \A i \in (Len(before) + 1)..Len(after) : C17_IsCsv(C17_Filename(after[i]))

C17_SearchRejected ==
    (resp'.op \in {"search", "search_started"} /\ resp'.idx.t = "str" /\ C17_Blank(resp'.idx.s))
        => /\ ~resp'.success
           /\ search_pc' # "loop"
           /\ UNCHANGED <<gmaps_calls, api_calls_made, LAST_RESULTS_CACHE, last_results_key>>

C17_UploadRejected ==
    /\ (resp'.op \in {"markets_rejected", "upload_results"} /\ ~C17_IsCsv(resp'.idx.s))
           => /\ ~resp'.success
              /\ UNCHANGED <<db_file, markets_file, LAST_RESULTS_CACHE, last_results_key>>
    /\ markets_file' # markets_file
           => LET uploads == _load_markets_db(markets_file').items
              IN  /\ resp'.op = "markets_upload"
                  /\ uploads # <<>>
                  /\ C17_IsCsv(C17_Filename(uploads[Len(uploads)]))
    /\ resp'.op = "bulk_upload"
           => /\ UNCHANGED <<markets_file, LAST_RESULTS_CACHE, last_results_key>>
              /\ IF db_file' = db_file THEN TRUE
                 ELSE /\ C17_CsvNames(resp'.idx.items) # <<>>
                      /\ C17_BulkAdded(_load_db(db_file).items, _load_db(db_file').items,
                                       C17_CsvNames(resp'.idx.items))

\* C17: a request with a user input error is not executed.  A search whose
\* retailer name is empty, or commas and whitespace only, is refused, makes no
\* external call and leaves the result cache and the session's key as they
\* were; an upload whose filename does not end in .csv (in either case) is
\* refused and leaves the retailer collection, the markets collection and the
\* result cache as they were, and no record of either collection comes from
\* such a file.
C17_InputErrorsRejected == [][C17_SearchRejected /\ C17_UploadRejected]_vars

\* a markets upload named markets.xlsx has been refused while both
\* collections hold a record and the session holds a result key
C17_Witness ==
    /\ resp = Resp("markets_rejected", FALSE, VStr("markets.xlsx"), 0)
    /\ _load_markets_db(markets_file).items # <<>>
    /\ _load_db(db_file).items # <<>>
    /\ last_results_key # VNone

\* a search whose retailer name is " , " has been refused after a search
\* that filled the result cache
C17_WitnessSearch ==
    /\ resp = Resp("search", FALSE, VStr(" , "), 0)
    /\ last_results_key # VNone


(***************************************************************************)
(* Lifecycle of a retailer record                                          *)
(***************************************************************************)
\* the environment: opening retailer_database.json for reading starts to
\* fail (its read permission is withdrawn, the disk reports a read error), or
\* works again; the content of the file is as it was
read_fault ==
    /\ db_file.exists
    /\ db_file' = [db_file EXCEPT !.readable = ~db_file.readable]
    /\ resp' = NoResp
    /\ UNCHANGED <<now, db_rest>>

\* the records the file holds, whether or not it can be read now
stored_records(f) ==
    IF ~f.exists THEN <<>>
    ELSE LET loaded == json_loads(f.content)
         IN  IF loaded.ok THEN loaded.v.items ELSE <<>>

LifecycleInit ==
    /\ BrandIdle
    /\ AddrIdle
    /\ RtIdle
    /\ SearchIdle
    /\ AnIdle
    /\ db_file = FileOf(json_dumps(VList(<<LegacyRecord>>)))
    /\ markets_file = FileOf(json_dumps(VList(<<UploadTroy>>)))
    /\ now = 0
    /\ resp = NoResp

\* the first record, and an index past the end
LifecycleIndexes == {VInt(0), VInt(MaxRecords)}

LifecycleNext ==
    \/ /\ Len(stored_records(db_file)) < MaxRecords
       /\ save_to_database(VStr("Gap"), <<StoreTroy, StoreClosed>>)
    \/ /\ Len(stored_records(db_file)) < MaxRecords
       /\ bulk_upload_retailers(<<BulkFile("old_navy.csv", BulkOldNavy)>>)
    \/ \E idx \in LifecycleIndexes : remove_retailer(idx)
    \/ \E idx \in LifecycleIndexes : restore_retailer(idx)
    \/ \E idx \in LifecycleIndexes : delete_retailer(idx)
    \/ clear_database
    \/ retailer_database
    \/ analyze
    \/ read_fault

SpecLifecycle == LifecycleInit /\ [][LifecycleNext]_vars

C19_Names(records) ==
    [i \in 1..Len(records) |-> dict_get(records[i], "retailer_name", VNone)]

C19_IsPrefix(p, q) == Len(p) <= Len(q) /\ SubSeq(q, 1, Len(p)) = p

\* the records of the file before the step are records of the file after it
C19_Kept == C19_IsPrefix(C19_Names(stored_records(db_file)), C19_Names(stored_records(db_file')))

\* a permanent delete takes the addressed record and no other
C19_Deleted ==
    C19_Names(stored_records(db_file')) =
        IF resp'.success
        THEN RemoveAt(C19_Names(stored_records(db_file)), resp'.idx.n + 1)
        ELSE C19_Names(stored_records(db_file))

\* C19: a saved retailer record stays in the persisted retailer collection
\* through every save, bulk upload, remove, restore, migration, view and
\* analysis, also when the request runs while the file cannot be read; only
\* a permanent delete (of one record, or of all by clearing the database)
\* takes a record out.
C19_RecordStays ==
    [][/\ resp'.op \notin {"delete", "clear"} => C19_Kept
       /\ resp'.op = "delete" => C19_Deleted]_vars

\* the same, for the requests that run while the file can be read
C19_StaysWhileReadable ==
    [][/\ (db_file.readable /\ resp'.op \notin {"delete", "clear"}) => C19_Kept
       /\ resp'.op = "delete" => C19_Deleted]_vars

\* a save has run while the file could not be read, and the file now holds
\* the new record alone
C19_Overwritten ==
    /\ resp.op = "save" /\ resp.success
    /\ ~db_file.readable
    /\ Len(stored_records(db_file)) = 1


(***************************************************************************)
(* Requests that address an element by its index                           *)
(***************************************************************************)
\* DELETE /api/markets-database/<int:upload_index>: the route takes a path
\* of digits only; without an index, or with a minus sign, no route matches,
\* the handler does not run and the response is an error page
markets_delete_route(path_index) ==
    IF path_index = VNone \/ path_index.n < 0
    THEN /\ resp' = Resp("markets_delete", FALSE, path_index, 0)
         /\ UNCHANGED <<markets_file, markets_rest>>
    ELSE delete_markets_upload(path_index.n)

DeleteRecords == <<AnRecord("Gap", <<AnGapTroy1>>), AnRecord("Polo", <<>>),
                   AnRecord("Gap", <<AnGapTroy1>>)>>
DeleteUploads == <<UploadTroy, UploadEmpty, UploadTroy>>

\* the indexes of a request: absent, negative, the three elements, past the end
DeleteIndexes == {VNone} \cup {VInt(i) : i \in -1..3}
\* soft delete and restore address the first record or none
FlagIndexes == {VNone, VInt(-1), VInt(0), VInt(3)}

DeleteInit ==
    /\ BrandIdle
    /\ AddrIdle
    /\ RtIdle
    /\ SearchIdle
    /\ AnIdle
    /\ db_file \in {NoFile, FileOf(<<>>), FileOf(json_dumps(VList(DeleteRecords)))}
    /\ markets_file \in {NoFile, FileOf(<<>>), FileOf(json_dumps(VList(DeleteUploads)))}
    /\ now = 0
    /\ resp = NoResp

DeleteNext ==
    \/ \E idx \in FlagIndexes : remove_retailer(idx)
    \/ \E idx \in FlagIndexes : restore_retailer(idx)
    \/ \E idx \in DeleteIndexes : delete_retailer(idx)
    \/ \E idx \in DeleteIndexes : markets_delete_route(idx)

SpecDelete == DeleteInit /\ [][DeleteNext]_vars

\* idx addresses no element of a collection of n elements
C22_BadIndex(idx, n) == idx = VNone \/ idx.n < 0 \/ idx.n >= n

\* seq without its element at the 0-based index k, the others in their order
C22_Without(seq, k) ==
    [j \in 1..(Len(seq) - 1) |-> IF j <= k THEN seq[j] ELSE seq[j + 1]]

\* what a request on the collection of file f (before) and g (after) may do
C22_Effect(before, f, g, hard_delete) ==
    IF C22_BadIndex(resp'.idx, Len(before))
    THEN ~resp'.success /\ g = f
    ELSE /\ resp'.success
         /\ hard_delete => json_loads(g.content).v.items = C22_Without(before, resp'.idx.n)

\* C22: a hard delete by index removes exactly the element at that index and
\* keeps the others in their order; with a missing, negative or out-of-range
\* index a soft delete, a restore, a hard delete of a retailer and a delete
\* of a markets upload fail and leave the persisted collection as it was.
C22_DeleteByIndex ==
    [][/\ resp'.op \in {"remove", "restore"} =>
              C22_Effect(_load_db(db_file).items, db_file, db_file', FALSE)
       /\ resp'.op = "delete" =>
              C22_Effect(_load_db(db_file).items, db_file, db_file', TRUE)
       /\ resp'.op = "markets_delete" =>
              C22_Effect(_load_markets_db(markets_file).items, markets_file, markets_file', TRUE)
       /\ resp'.op \in {"remove", "restore", "delete"} => UNCHANGED markets_file
       /\ resp'.op = "markets_delete" => UNCHANGED db_file]_vars

\* the second of three records has been deleted, and then a delete with the
\* index 2, now past the end, was refused
C22_Witness ==
    /\ resp = Resp("delete", FALSE, VInt(2), 0)
    /\ _load_db(db_file).items = <<DeleteRecords[1], DeleteRecords[3]>>
    /\ Len(_load_markets_db(markets_file).items) = 2


(***************************************************************************)
(* The ZIP under which analyze groups a store                              *)
(***************************************************************************)
ZipRecords ==
    { AnRecord("Saks", <<AnStore("Saks", "12345 Main St, Troy, MI 48084, USA", "")>>),
      AnRecord("Gap", <<AnGapTroy1, AnGapTroy2>>),
      AnRecord("Ann", <<AnAnnNoCity, AnNoName, AnNoZip>>),
      AnRecord("Belk", <<AnStore("Belk", "123456 Oak Rd, Troy, MI 48083", "Troy")>>) }

ZipInit ==
    /\ BrandIdle
    /\ AddrIdle
    /\ RtIdle
    /\ SearchIdle
    /\ db_file \in {_save_db(NoFile, VList(q)) : q \in SeqsUpTo(ZipRecords, MaxAnRecords)}
    /\ markets_file \in AnMarketsFiles
    /\ session_markets_rows \in {<<>>, RowsTroy, RowsTwo}
    /\ results = <<>>
    /\ now = 0
    /\ resp = NoResp

SpecZip == ZipInit /\ [][AnNext]_vars

\* the stores of the records: name and address as analyze reads them
C23_Stores(records) ==
    UNION {{ [name |-> counted_entries(records[i])[j].name.s,
              address |-> counted_entries(records[i])[j].address.s,
              at |-> <<i, j>>] : j \in 1..Len(counted_entries(records[i]))}
           : i \in 1..Len(records)}

C23_Word(c) == IsDigit(c) \/ IsUpper(c) \/ c \in LowerSet \/ c = "_"

\* a standalone run of five digits starts at position i of s
C23_RunAt(s, i) ==
    /\ i + 4 <= Len(s)
    /\ \A k \in i..(i + 4) : IsDigit(CharAt(s, k))
    /\ i = 1 \/ ~C23_Word(CharAt(s, i - 1))
    /\ i + 4 = Len(s) \/ ~C23_Word(CharAt(s, i + 5))

\* the first standalone five-digit run of s, "" when it has none
C23_FirstRun(s) ==
    IF \E i \in 1..Len(s) : C23_RunAt(s, i)
    THEN LET i == CHOOSE i \in 1..Len(s) :
                      C23_RunAt(s, i) /\ \A j \in 1..(i - 1) : ~C23_RunAt(s, j)
         IN  SubSeq(s, i, i + 4)
    ELSE ""

\* the ZIPs of the state-and-ZIP parts of an address, without a -4 extension
C23_CarriedZips(address) ==
    LET parts == str_split_sep(address, ",")
    IN  {SubSeq(str_strip(parts[p]), k + 1, k + 5) :
            <<p, k>> \in {q \in (1..Len(parts)) \X (1..Len(address)) :
                             StateSpaceZipAt(str_strip(parts[q[1]]), q[2])}}

\* the ZIPs a row lists
C23_RowZips(row) ==
    IF row.Prioritized_Zip_Codes = "" THEN {}
    ELSE LET parts == str_split_sep(row.Prioritized_Zip_Codes, ",")
         IN  {str_lstrip(parts[i]) : i \in 1..Len(parts)}

C23_AllRowZips == UNION {C23_RowZips(results[r]) : r \in 1..Len(results)}

RECURSIVE C23_Total(_)
C23_Total(rows) == IF rows = <<>> THEN 0 ELSE Head(rows).Total_Stores + C23_Total(Tail(rows))

\* analyze has run with market rows and retailer records
C23_Analyzed ==
    /\ resp.op = "analyze"
    /\ markets_rows_for(session_markets_rows, markets_file) # <<>>
    /\ _load_db(db_file).items # <<>>

\* C23: the ZIP under which analyze groups a store is the first standalone
\* five-digit run of its address, so a store whose address carries a state
\* and ZIP is grouped under that ZIP; a store without such a run, or without
\* a name, is counted in no row.
C23_GroupedUnderZip ==
    C23_Analyzed =>
        LET stores == C23_Stores(_load_db(db_file).items)
            counted == {st \in stores : st.name # "" /\ C23_FirstRun(st.address) # ""}
        IN  /\ C23_AllRowZips = {C23_FirstRun(st.address) : st \in counted}
            /\ C23_Total(results) = Cardinality(counted)
            /\ \A st \in stores :
                   (st.name # "" /\ C23_CarriedZips(st.address) # {})
                       => C23_CarriedZips(st.address) \subseteq C23_AllRowZips

\* the part that holds: the rows list exactly the first standalone five-digit
\* runs of the named stores, and the totals count exactly the named stores
\* that have such a run
C23_GroupedUnderFirstRun ==
    C23_Analyzed =>
        LET stores == C23_Stores(_load_db(db_file).items)
            counted == {st \in stores : st.name # "" /\ C23_FirstRun(st.address) # ""}
        IN  /\ C23_AllRowZips = {C23_FirstRun(st.address) : st \in counted}
            /\ C23_Total(results) = Cardinality(counted)

\* the store at 12345 Main St, ZIP 48084, is listed under 12345
C23_HouseNumber ==
    /\ C23_Analyzed
    /\ "12345" \in C23_AllRowZips
    /\ "48084" \notin C23_AllRowZips

(***************************************************************************)
(* Results spreadsheets with other headers                                 *)
(***************************************************************************)
MaxHeaderWrites == 2

\* the headers the upload reads, in the case it reads them
HeadersExact ==
    << KV("Store Name", "Gap"), KV("Address", "1 Main St, Troy, MI 48084"),
       KV("City", "Troy"), KV("State", "MI"), KV("Zip", "48084"),
       KV("Phone", "555-0100"), KV("Rating", "4.5"), KV("Website", "gap.com"),
       KV("Lat", "42.5"), KV("Long", "83.1"), KV("Status", "OPERATIONAL") >>

\* the same columns under headers in lower case
HeadersLower ==
    [j \in 1..Len(HeadersExact) |-> KV(str_lower(HeadersExact[j].k), HeadersExact[j].v)]

\* the first-listed headers, with ZIP, Latitude and Longitude
HeadersListed ==
    << KV("Store Name", "Polo"), KV("Address", "6 Elm St, Boston, MA 02108"),
       KV("City", "Boston"), KV("State", "MA"), KV("ZIP", "02108"),
       KV("Latitude", "42.3"), KV("Longitude", "71.0"), KV("Status", "CLOSED") >>

\* the alternative headers Name and Zip Code in place of the first-listed
HeadersAlternative ==
    << KV("Name", "Polo"), KV("Address", "6 Elm St, Boston, MA 02108"),
       KV("City", "Boston"), KV("State", "MA"), KV("Zip Code", "02108") >>

HeaderCsvs ==
    {<<HeadersExact>>, <<HeadersLower>>, <<HeadersListed>>, <<HeadersAlternative>>}

HeadersNext ==
    \/ /\ uuids < MaxHeaderWrites
       /\ \E rows \in HeaderCsvs : upload_results_csv("stores.csv", rows)
    \/ Tick
    \/ new_session

SpecHeaders == SearchInit /\ [][HeadersNext]_vars

\* the cell of a row under the first of the listed headers that the row
\* has in any letter case, "" when it has none of them
C24_Cell(row, listed) ==
    LET has(h) == \E j \in 1..Len(row) : str_lower(row[j].k) = str_lower(h)
    IN  IF \A i \in 1..Len(listed) : ~has(listed[i]) THEN ""
        ELSE LET first == CHOOSE i \in 1..Len(listed) :
                              has(listed[i]) /\ \A m \in 1..(i - 1) : ~has(listed[m])
             IN  row[CHOOSE j \in 1..Len(row) :
                         str_lower(row[j].k) = str_lower(listed[first])].v

\* the text fields of a store are the cells under the recognized headers
C24_Mapped(store, row) ==
    /\ store.name = C24_Cell(row, <<"Store Name", "Name">>)
    /\ store.address = C24_Cell(row, <<"Address">>)
    /\ store.city = C24_Cell(row, <<"City">>)
    /\ store.state = C24_Cell(row, <<"State">>)
    /\ store.zip_code = C24_Cell(row, <<"ZIP", "Zip Code">>)
    /\ store.phone_number = C24_Cell(row, <<"Phone">>)
    /\ store.website = C24_Cell(row, <<"Website">>)
    /\ (C24_Cell(row, <<"Status">>) # "" => store.business_status = C24_Cell(row, <<"Status">>))
    /\ (C24_Cell(row, <<"Latitude", "Lat">>) # ""
            => store.latitude = VFloat(C24_Cell(row, <<"Latitude", "Lat">>)))
    /\ (C24_Cell(row, <<"Longitude", "Long">>) # ""
            => store.longitude = VFloat(C24_Cell(row, <<"Longitude", "Long">>)))

\* the step is an upload of a results spreadsheet that was accepted
C24_Uploaded == resp'.op = "upload_results" /\ resp'.success /\ uuids' = uuids + 1

C24_UploadedStores == dict_get(LAST_RESULTS_CACHE', last_results_key'.s, VNone).stores

\* C24: when a results spreadsheet is uploaded, each recognized header (Store
\* Name/Name, Address, City, State, ZIP/Zip Code, Phone, Rating, Website,
\* Latitude/Lat, Longitude/Long, Status) is mapped to its store field whatever
\* the letter case of the header, and the listed alternative header of a field
\* is used when the first one is absent.
C24_HeadersMapped ==
    [][C24_Uploaded =>
          \A k \in 1..Len(resp'.idx.rows) :
              C24_Mapped(C24_UploadedStores[k], resp'.idx.rows[k])]_vars

\* C24, what the upload does: a cell is read under the header spelled as the
\* code spells it (Store Name, Address, City, State, Zip, Phone, Website,
\* Status), and under no other spelling
C24_Read(row, h) == IF \E j \in 1..Len(row) : row[j].k = h THEN csv_cell(row, h) ELSE ""

C24_ExactHeadersMapped ==
    [][C24_Uploaded =>
          \A k \in 1..Len(resp'.idx.rows) :
              LET store == C24_UploadedStores[k]
                  row == resp'.idx.rows[k]
              IN  /\ store.name = C24_Read(row, "Store Name")
                  /\ store.address = C24_Read(row, "Address")
                  /\ store.city = C24_Read(row, "City")
                  /\ store.state = C24_Read(row, "State")
                  /\ store.zip_code = C24_Read(row, "Zip")
                  /\ store.phone_number = C24_Read(row, "Phone")
                  /\ store.website = C24_Read(row, "Website")]_vars

\* a spreadsheet with the header Name was uploaded and its store has no name
C24_NameLost ==
    /\ resp.op = "upload_results" /\ resp.success
    /\ resp.idx.rows = <<HeadersAlternative>>
    /\ last_results_key # VNone
    /\ dict_get(LAST_RESULTS_CACHE, last_results_key.s, VNone).stores[1].name = ""

(***************************************************************************)
(* The counts of a retailer record                                         *)
(***************************************************************************)
MaxCountRecords == 2

CountsInit ==
    /\ BrandIdle
    /\ AddrIdle
    /\ RtIdle
    /\ SearchIdle
    /\ AnIdle
    /\ db_file = FileOf(json_dumps(VList(<<LegacyRecord>>)))
    /\ markets_file = NoFile
    /\ now = 0
    /\ resp = NoResp

\* the three writers, and remove, restore and delete of the first two records
CountsNext ==
    \/ /\ Len(stored_records(db_file)) < MaxCountRecords
       /\ save_to_database(VStr("Gap"), <<StoreTroy, StoreClosed>>)
    \/ /\ Len(stored_records(db_file)) < MaxCountRecords
       /\ bulk_upload_retailers(<<BulkFile("old_navy.csv", BulkOldNavy)>>)
    \/ retailer_database
    \/ \E idx \in {VInt(0), VInt(1)} : remove_retailer(idx)
    \/ \E idx \in {VInt(0), VInt(1)} : restore_retailer(idx)
    \/ \E idx \in {VInt(0), VInt(1)} : delete_retailer(idx)

SpecCounts == CountsInit /\ [][CountsNext]_vars

C25_Stores(record) == dict_get(record, "stores", VList(<<>>)).items

C25_City(store) == str_strip(dict_get(store, "city", VStr("")).s)

C25_Closed(store) ==
    str_lower(dict_get(store, "business_status", VStr("")).s)
        \in {"permanently_closed", "closed_permanently"}

\* total_stores is the length of the store list, total_cities the number of
\* distinct trimmed cities that are not empty, and no store is closed
C25_Consistent(record) ==
    /\ dict_get(record, "total_stores", VNone) = VInt(Len(C25_Stores(record)))
    /\ dict_get(record, "total_cities", VNone) =
           VInt(Cardinality({c \in {C25_City(C25_Stores(record)[i]) :
                                        i \in 1..Len(C25_Stores(record))} : c # ""}))
    /\ \A i \in 1..Len(C25_Stores(record)) : ~C25_Closed(C25_Stores(record)[i])

\* the part of a record the claim is about
C25_Counted(record) ==
    <<C25_Stores(record), dict_get(record, "total_stores", VNone),
      dict_get(record, "total_cities", VNone)>>

\* every record the three writers have written (each of them sets
\* total_cities) is consistent
C25_AllConsistent(records) ==
    \A i \in 1..Len(records) :
        dict_has(records[i], "total_cities") => C25_Consistent(records[i])

\* a remove, restore or delete leaves the stores and counts of every record
\* it keeps as they were
C25_Preserved(before, after) ==
    resp'.op \in {"remove", "restore", "delete"} =>
        /\ Len(after) <= Len(before)
        /\ \A j \in 1..Len(after) :
               \E i \in 1..Len(before) : C25_Counted(after[j]) = C25_Counted(before[i])

\* C25: every retailer record written by save_to_database,
\* bulk_upload_retailers or _migrate_retailer_data has total_stores = the
\* number of stores in its list and total_cities = the number of distinct
\* non-empty trimmed store cities, and holds no permanently closed store;
\* remove, restore and delete of any record preserve this for all records.
C25_RecordCounts ==
    /\ []C25_AllConsistent(stored_records(db_file))
    /\ [][C25_Preserved(stored_records(db_file), stored_records(db_file'))]_vars

\* the file holds a migrated record, flagged as removed, that lost its closed
\* store, and an uploaded record whose blank city is not counted
C25_Witness ==
    LET records == stored_records(db_file)
    IN  /\ Len(records) = 2
        /\ dict_get(records[1], "retailer_name", VNone) = VStr("Old")
        /\ dict_get(records[1], "removed", VNone) = VBool(TRUE)
        /\ dict_get(records[1], "total_stores", VNone) = VInt(1)
        /\ dict_get(records[2], "source", VNone) = VStr("csv_upload")
        /\ Len(C25_Stores(records[2])) = 2
        /\ dict_get(records[2], "total_cities", VNone) = VInt(1)

(***************************************************************************)
(* Analyze over databases that hold removed records                        *)
(***************************************************************************)
MaxSumRecords == 2

\* a record after remove_retailer
Removed(record) ==
    dict_set(dict_set(record, "removed", VBool(TRUE)), "removed_date", VStr(isoformat(0)))

SumRecords ==
    { AnRecord("Gap", <<AnGapTroy1, AnGapTroy2, AnNoZip>>),
      Removed(AnRecord("Polo", <<AnPoloTroy, AnPoloBoston>>)),
      AnRecord("Ann", <<AnAnnNoCity, AnNoName>>),
      Removed(AnOld) }

SumInit ==
    /\ BrandIdle
    /\ AddrIdle
    /\ RtIdle
    /\ SearchIdle
    /\ db_file \in {_save_db(NoFile, VList(q)) : q \in SeqsUpTo(SumRecords, MaxSumRecords)}
    /\ markets_file \in AnMarketsFiles
    /\ session_markets_rows \in {<<>>, RowsTroy, RowsTwo}
    /\ results = <<>>
    /\ now = 0
    /\ resp = NoResp

SpecSum == SumInit /\ [][AnNext]_vars

\* the stores of a record: its list, or the record itself when it has none
C26_StoresOf(record) ==
    IF dict_has(record, "stores") THEN dict_get(record, "stores", VNone).items
    ELSE <<record>>

C26_Address(store) ==
    IF truthy(dict_get(store, "formatted_address", VNone))
    THEN dict_get(store, "formatted_address", VNone)
    ELSE dict_get(store, "address", VStr(""))

\* the stores of all records, removed or not, that have a name and a ZIP,
\* each with the city label its ZIP resolves to
C26_Counted(rows, records) ==
    LET all == UNION {{ [at |-> <<i, j>>,
                         name |-> dict_get(C26_StoresOf(records[i])[j], "name", VStr("")).s,
                         zip |-> _extract_zip_from_address(
                                     C26_Address(C26_StoresOf(records[i])[j]))]
                        : j \in 1..Len(C26_StoresOf(records[i]))} : i \in 1..Len(records)}
    IN  {[at |-> e.at, city |-> resolve_city(rows, records, e.zip)]
            : e \in {x \in all : x.name # "" /\ x.zip # ""}}

RECURSIVE C26_Total(_)
C26_Total(rows) == IF rows = <<>> THEN 0 ELSE Head(rows).Total_Stores + C26_Total(Tail(rows))

C26_Sums(counted) ==
    /\ C26_Total(results) = Cardinality(counted)
    /\ \A r, q \in 1..Len(results) : results[r].City = results[q].City => r = q
    /\ \A r \in 1..Len(results) :
           results[r].Total_Stores = Cardinality({e \in counted : e.city = results[r].City})
    /\ \A e \in counted : \E r \in 1..Len(results) : results[r].City = e.city

\* analyze ran the join: there are market rows and retailer records
C26_Joined ==
    /\ resp.op = "analyze"
    /\ markets_rows_for(session_markets_rows, markets_file) # <<>>
    /\ _load_db(db_file).items # <<>>

C27_WroteAgain(op) ==
    /\ uuids' = uuids + 1
    /\ resp'.op = op
    /\ last_results_key # VNone
    /\ dict_has(LAST_RESULTS_CACHE, last_results_key.s)

\* C27: within one session LAST_RESULTS_CACHE holds at most one entry the
\* session created: a batch search or a results-CSV upload that writes a new
\* entry removes the entry the session's previous key pointed to.
C27_PreviousEntryRemoved ==
    [][\A op \in {"search", "upload_results"} :
           C27_WroteAgain(op) => ~dict_has(LAST_RESULTS_CACHE', last_results_key.s)]_vars

\* C27, for the batch search alone: its write removes the previous entry
C27_SearchRemovesPrevious ==
    [][C27_WroteAgain("search") => ~dict_has(LAST_RESULTS_CACHE', last_results_key.s)]_vars

\* a session that never ended has left two entries: the cache holds the
\* first key drawn and a later one, and the session never dropped its cookie
C27_TwoEntries ==
    /\ resp.op = "upload_results" /\ resp.success
    /\ uuids = 2
    /\ dict_has(LAST_RESULTS_CACHE, uuid4(0))
    /\ dict_has(LAST_RESULTS_CACHE, uuid4(1))
    /\ last_results_key = VStr(uuid4(1))
    /\ now = 0

(***************************************************************************)
(* Bulk uploads of several files, some of which fail                       *)
(***************************************************************************)
BulkGap == <<BulkRow("Gap", "1 Main St, Troy, MI 48084", "Troy", "MI", "48084")>>

\* a row whose rating is text: float() raises on it
BulkUnrated ==
    << << KV("Store Name", "Polo"), KV("Address", "6 Elm St, Boston, MA 02108"),
          KV("City", "Boston"), KV("Rating", "n/a") >> >>

\* requests of two files: a CSV without rows after and before a good one, a
\* CSV that raises before and after a good one, two good ones, a file of
\* another type
BulkRequests ==
    { <<BulkFile("old_navy.csv", BulkOldNavy), BulkFile("empty.csv", <<>>)>>,
      <<BulkFile("empty.csv", <<>>), BulkFile("gap.csv", BulkGap)>>,
      <<BulkFile("polo.csv", BulkUnrated), BulkFile("gap.csv", BulkGap)>>,
      <<BulkFile("gap.csv", BulkGap), BulkFile("polo.csv", BulkUnrated)>>,
      <<BulkFile("gap.csv", BulkGap), BulkFile("old_navy.csv", BulkOldNavy)>>,
      <<BulkFile("notes.txt", BulkGap), BulkFile("gap.csv", BulkGap)>> }

BulkInit ==
    /\ BrandIdle
    /\ AddrIdle
    /\ RtIdle
    /\ SearchIdle
    /\ AnIdle
    /\ db_file = NoFile
    /\ markets_file = NoFile
    /\ now = 0
    /\ resp = NoResp

\* the collection takes MaxRecords records; the clock gives the records of
\* later requests later dates
BulkNext ==
    \/ \E files \in BulkRequests : bulk_upload_retailers(files)
    \/ \E retailer_index \in {VInt(0), VInt(1)} : delete_retailer(retailer_index)
    \/ Tick

SpecBulk == BulkInit /\ [][BulkNext]_vars

\* the retailer name the upload derives from a filename
C28_NameOf(filename) == str_title(str_replace(str_replace(filename, ".csv", ""), "_", " "))

\* the file is read and every one of its rows becomes a store
C28_Succeeds(file) ==
    /\ C17_IsCsv(file.s)
    /\ file.rows # <<>>
    /\ \A k \in 1..Len(file.rows) :
           \A j \in 1..Len(file.rows[k]) :
               file.rows[k][j].k \in {"Rating", "Latitude", "Longitude"}
                   => AllDigits(file.rows[k][j].v) \/ IsDecimal(file.rows[k][j].v)

\* the records appended are those of the files that succeed, in order, each
\* named after its own file and holding its rows
C28_Appended(before, after, good) ==
    /\ Len(after) = Len(before) + Len(good)
    /\ SubSeq(after, 1, Len(before)) = before
    /\ \A k \in 1..Len(good) :
           LET record == after[Len(before) + k]
           IN  /\ dict_get(record, "filename", VNone) = VStr(good[k].s)
               /\ dict_get(record, "retailer_name", VNone) = VStr(C28_NameOf(good[k].s))
               /\ Len(dict_get(record, "stores", VList(<<>>)).items) = Len(good[k].rows)

\* the step is a bulk upload that was accepted (the clock stands still)
C28_Uploaded == resp'.op = "bulk_upload" /\ resp'.success /\ now' = now

\* C28: in bulk_upload_retailers every record appended to the retailer
\* collection has a retailer_name derived from the filename of the file it
\* was built from, and a file that fails or has no rows neither appends a
\* record nor prevents the other files of the request from being processed.
C28_RecordsOfOwnFiles ==
    [][C28_Uploaded =>
          C28_Appended(_load_db(db_file).items, _load_db(db_file').items,
                       SelectSeq(resp'.idx.items, C28_Succeeds))]_vars

\* C28, for requests without a CSV that has no rows after a file that built
\* a store: there the claim holds
C28_NoRowlessAfterBuilt(files) ==
    \A i, j \in 1..Len(files) :
        (i < j /\ C17_IsCsv(files[j].s) /\ files[j].rows = <<>>)
            => ~(C17_IsCsv(files[i].s) /\ files[i].rows # <<>>)

C28_RecordsOfFilesWithRows ==
    [][(C28_Uploaded /\ C28_NoRowlessAfterBuilt(resp'.idx.items)) =>
          C28_Appended(_load_db(db_file).items, _load_db(db_file').items,
                       SelectSeq(resp'.idx.items, C28_Succeeds))]_vars

\* the upload of old_navy.csv and a CSV without rows has appended a record
\* for the second file, named after the first
C28_NamedAfterOtherFile ==
    /\ resp.op = "bulk_upload" /\ resp.success
    /\ Len(_load_db(db_file).items) = 2
    /\ dict_get(_load_db(db_file).items[2], "filename", VNone) = VStr("empty.csv")
    /\ dict_get(_load_db(db_file).items[2], "retailer_name", VNone) = VStr("Old Navy")
    /\ dict_get(_load_db(db_file).items[2], "stores", VNone) = VList(<<>>)

(***************************************************************************)
(* Analyze over several persisted market uploads                           *)
(***************************************************************************)
\* a store in Detroit whose record names no city
AnGapDetroit == AnStore("Gap", "4 Pine St, Detroit, MI 48201", "")

RecentRecords ==
    { AnRecord("Gap", <<AnGapDetroit, AnGapTroy1>>),
      AnRecord("Polo", <<AnPoloTroy>>),
      AnRecord("Ann", <<AnAnnNoCity>>) }

\* persisted uploads, oldest first; a.csv lists 48201 under Detroit and b.csv
\* does not
RecentMarketsFiles ==
    { FileOf(json_dumps(VList(<< MarketsEntry("a.csv", RowsTwo, 2, 0),
                                 MarketsEntry("b.csv", RowsTroy, 1, 1) >>))),
      FileOf(json_dumps(VList(<< MarketsEntry("b.csv", RowsTroy, 1, 0),
                                 MarketsEntry("a.csv", RowsTwo, 2, 1) >>))),
      FileOf(json_dumps(VList(<< MarketsEntry("a.csv", RowsTwo, 2, 0),
                                 MarketsEntry("a.csv", RowsTwo, 2, 1),
                                 MarketsEntry("b.csv", RowsTroy, 1, 2) >>))),
      FileOf(json_dumps(VList(<< MarketsEntry("a.csv", RowsTwo, 2, 0), UploadEmpty >>))) }

RecentInit ==
    /\ BrandIdle
    /\ AddrIdle
    /\ RtIdle
    /\ SearchIdle
    /\ db_file \in {_save_db(NoFile, VList(q)) : q \in SeqsUpTo(RecentRecords, MaxAnRecords)}
    /\ markets_file \in RecentMarketsFiles
    /\ session_markets_rows \in {<<>>, RowsTwo}
    /\ results = <<>>
    /\ now = 0
    /\ resp = NoResp

SpecRecent == RecentInit /\ [][AnNext]_vars

\* the ZIP codes a list of market rows names
C29_Listed(rows) ==
    UNION {{str_strip(str_split_sep(dict_get(rows[i], "Zip Codes", VStr("")).s, ",")[j])
               : j \in 1..Len(str_split_sep(dict_get(rows[i], "Zip Codes", VStr("")).s, ","))}
           : i \in 1..Len(rows)} \ {""}

\* the ZIP codes a result row shows
C29_RowZips(row) ==
    {str_strip(str_split_sep(row.Prioritized_Zip_Codes, ",")[j])
        : j \in 1..Len(str_split_sep(row.Prioritized_Zip_Codes, ","))} \ {""}

\* the trimmed cities the stores at a ZIP carry
C29_StoreCities(records, z) ==
    UNION {{str_strip(dict_get(C26_StoresOf(records[i])[j], "city", VStr("")).s)
               : j \in {k \in 1..Len(C26_StoresOf(records[i])) :
                           _extract_zip_from_address(
                               C26_Address(C26_StoresOf(records[i])[k])) = z}}
           : i \in 1..Len(records)}

\* the rows of the uploads, taken as stored
C29_UploadRows(uploads, i) == dict_get(uploads[i], "data", VList(<<>>)).items

\* a row is flagged exactly when one of its ZIPs is listed by the most recent
\* upload, and a ZIP that upload does not list is labelled by a store's city
\* or as "ZIP <code>"
C29_JoinedWith(recent, records) ==
    \A r \in 1..Len(results) :
        /\ results[r].Is_Reflex_Market = (C29_RowZips(results[r]) \cap C29_Listed(recent) # {})
        /\ \A z \in C29_RowZips(results[r]) \ C29_Listed(recent) :
               results[r].City \in (C29_StoreCities(records, z) \ {""}) \cup {"ZIP " \o z}

\* the session holds no market rows and several uploads are persisted
C29_FromUploads ==
    /\ resp.op = "analyze"
    /\ session_markets_rows = <<>>
    /\ Len(_load_markets_db(markets_file).items) >= 2

\* C29: when several market uploads are persisted and the session holds no
\* market rows, analyze joins stores only against the rows of the most
\* recently appended upload: a ZIP that occurs only in an earlier upload
\* neither names the city nor sets Is Reflex Market.
C29_MostRecentUploadOnly ==
    C29_FromUploads =>
        C29_JoinedWith(C29_UploadRows(_load_markets_db(markets_file).items,
                                      Len(_load_markets_db(markets_file).items)),
                       _load_db(db_file).items)

\* 48201 is listed under Detroit by the earlier upload only, and the store
\* there is shown in a row labelled "ZIP 48201" that is no reflex market
C29_Witness ==
    /\ C29_FromUploads
    /\ "48201" \in C29_Listed(C29_UploadRows(_load_markets_db(markets_file).items, 1))
    /\ "48201" \notin C29_Listed(C29_UploadRows(_load_markets_db(markets_file).items,
                                                Len(_load_markets_db(markets_file).items)))
    /\ \E r \in 1..Len(results) :
           /\ results[r].City = "ZIP 48201"
           /\ ~results[r].Is_Reflex_Market
    /\ \E r \in 1..Len(results) : results[r].City = "Troy" /\ results[r].Is_Reflex_Market

(***************************************************************************)
(* The prefix-variant rule of is_official_brand_store                      *)
(***************************************************************************)
\* the whitespace-separated words of the lowercased, trimmed retailer name
C30_Words(r) == str_split(str_strip(str_lower(r)))

\* the outcome by the denylist and the three rules before the prefix rule
C30_WithoutPrefixRule(p, r) ==
    /\ p # ""
    /\ ~NameOnDenylist(p)
    /\ \/ BrandMentioned(p, r)
       \/ \E i \in 1..Len(C30_Words(r)) :
              Len(C30_Words(r)[i]) > 2 /\ str_contains(str_lower(p), C30_Words(r)[i])
       \/ /\ Len(C30_Words(r)) >= 2
          /\ \A i \in 1..Len(C30_Words(r)) : str_contains(str_lower(p), C30_Words(r)[i])

\* C30: the prefix-variant rule of is_official_brand_store never changes the
\* outcome: for every place name and retailer name the result equals (place
\* name non-empty) and (no denylist substring) and (brand substring, or some
\* brand token longer than 2 characters is a substring, or the retailer has at
\* least two tokens and all of them are substrings).
C30_PrefixRuleRedundant ==
    brand_called => (brand_result = C30_WithoutPrefixRule(place_name, retailer_name))

\* a name of the form "<prefix> <brand>" was accepted, and a name with a
\* prefix before another brand's word is known too
C30_Witness ==
    /\ brand_called
    /\ brand_result
    /\ place_name = "POLO Gap"
    /\ retailer_name = "Gap"
    /\ prefix_variant(str_lower(place_name), str_strip(str_lower(retailer_name)))

\* a name that holds a prefix word but not the brand was rejected
C30_WitnessRejected ==
    /\ brand_called
    /\ ~brand_result
    /\ place_name = "POLO Lauren"
    /\ retailer_name = "Gap"

====
